---------------------------- MODULE Spec2Model ----------------------------
(***************************************************************************)
(* Model of the two request handlers of the GitHub-and-document analyzer:  *)
(*   - the file-analysis route (POST of analyze-file): type dispatch, the  *)
(*     three-strategy PDF extraction chain, the content validator and the  *)
(*     document analysis with its deterministic fallback;                  *)
(*   - the repository-analysis route (POST of analyze-repo): URL match,    *)
(*     the four GitHub calls and the model call with its degraded stub.    *)
(* A JavaScript string is a sequence of one-character strings; a value     *)
(* that may or may not be a string is a record [t, v].                     *)
(***************************************************************************)
EXTENDS Integers, Sequences, FiniteSets, TLC

(***************************************************************************)
(* Characters and strings                                                  *)
(***************************************************************************)
LowerSeq == <<"a","b","c","d","e","f","g","h","i","j","k","l","m",
              "n","o","p","q","r","s","t","u","v","w","x","y","z">>
UpperSeq == <<"A","B","C","D","E","F","G","H","I","J","K","L","M",
              "N","O","P","Q","R","S","T","U","V","W","X","Y","Z">>

Range(s) == { s[i] : i \in DOMAIN s }

LowerChars == Range(LowerSeq)
UpperChars == Range(UpperSeq)
DigitChars == {"0","1","2","3","4","5","6","7","8","9"}
\* \s of a JavaScript regular expression (the ASCII part of it)
SpaceChars == {" ", "\t", "\n", "\r", "\f"}
HexChars   == DigitChars \cup {"a","b","c","d","e","f"}
VowelChars == {"a","e","i","o","u"}
\* [a-zA-Z0-9\s.,!?;:'"()\-\n\r\t]
ReadableChars == LowerChars \cup UpperChars \cup DigitChars \cup SpaceChars
                 \cup {".", ",", "!", "?", ";", ":", "'", "\"", "(", ")", "-"}

\* String.prototype.toLowerCase, one character
LowerMap == [c \in UpperChars |->
               LowerSeq[CHOOSE i \in DOMAIN UpperSeq : UpperSeq[i] = c]]

LowerOf(c) == IF c \in UpperChars THEN LowerMap[c] ELSE c

toLowerCase(s) == [i \in DOMAIN s |-> LowerOf(s[i])]

\* String.prototype.substring(from, to) with 0-based, end-exclusive indices
substring(s, from, to) ==
  LET lo == IF from < 0 THEN 0 ELSE IF from > Len(s) THEN Len(s) ELSE from
      hi == IF to < 0 THEN 0 ELSE IF to > Len(s) THEN Len(s) ELSE to
  IN  IF lo <= hi THEN SubSeq(s, lo + 1, hi) ELSE SubSeq(s, hi + 1, lo)

\* String.prototype.trim
trim(s) ==
  LET keep == { i \in DOMAIN s : s[i] \notin SpaceChars }
  IN  IF keep = {} THEN <<>>
      ELSE SubSeq(s, CHOOSE i \in keep : \A j \in 1..(i - 1) : j \notin keep,
                     CHOOSE i \in keep : \A j \in (i + 1)..Len(s) : j \notin keep)

\* String.prototype.includes
includes(s, w) ==
  \E i \in 0..(Len(s) - Len(w)) : SubSeq(s, i + 1, i + Len(w)) = w

\* String.prototype.endsWith
endsWith(s, w) ==
  Len(w) <= Len(s) /\ SubSeq(s, Len(s) - Len(w) + 1, Len(s)) = w

\* String.prototype.split(/\s+/): the pieces between maximal runs of
\* whitespace, an empty piece before a leading and after a trailing run.
\* The array is indexed here by the position where each piece starts, which
\* keeps its length and its elements.
pieceStarts(s) ==
  {1} \cup { i + 1 : i \in { j \in DOMAIN s : s[j] \in SpaceChars
                               /\ (j = Len(s) \/ s[j + 1] \notin SpaceChars) } }

pieceAt(s, p) ==
  LET stops == { i \in p..Len(s) : s[i] \in SpaceChars }
  IN  IF stops = {} THEN SubSeq(s, p, Len(s))
      ELSE SubSeq(s, p, (CHOOSE i \in stops : \A j \in p..(i - 1) : j \notin stops) - 1)

splitWhitespace(s) == [p \in pieceStarts(s) |-> pieceAt(s, p)]

\* s repeated n times
RECURSIVE Repeat(_, _)
Repeat(s, n) == IF n <= 0 THEN <<>> ELSE s \o Repeat(s, n - 1)

\* the decimal digits of a natural number, as `${n}` prints it
RECURSIVE Decimal(_)
Decimal(n) ==
  LET d == <<"0","1","2","3","4","5","6","7","8","9">>[(n % 10) + 1]
  IN  IF n < 10 THEN <<d>> ELSE Append(Decimal(n \div 10), d)

\* the printable ASCII characters from code 32 on; code 96, which a TLA+
\* string cannot hold, is written as "?"
AsciiSeq ==
  <<" ","!","\"","#","$","%","&","'","(",")","*","+",",","-",".","/",
    "0","1","2","3","4","5","6","7","8","9",":",";","<","=",">","?","@",
    "A","B","C","D","E","F","G","H","I","J","K","L","M","N","O","P","Q","R",
    "S","T","U","V","W","X","Y","Z","[","\\","]","^","_","?",
    "a","b","c","d","e","f","g","h","i","j","k","l","m","n","o","p","q","r",
    "s","t","u","v","w","x","y","z","{","|","}","~">>

Base64Seq ==
  <<"A","B","C","D","E","F","G","H","I","J","K","L","M","N","O","P","Q","R",
    "S","T","U","V","W","X","Y","Z",
    "a","b","c","d","e","f","g","h","i","j","k","l","m","n","o","p","q","r",
    "s","t","u","v","w","x","y","z",
    "0","1","2","3","4","5","6","7","8","9","+","/">>

Base64Value == [c \in Range(Base64Seq) |->
                  (CHOOSE i \in DOMAIN Base64Seq : Base64Seq[i] = c) - 1]

isBase64Char(c) == c \in DOMAIN Base64Value

\* the character of a byte of ASCII text
CharOfByte(b) ==
  IF b = 10 THEN "\n"
  ELSE IF b >= 32 /\ b <= 126 THEN AsciiSeq[b - 31]
  ELSE "?"

\* Buffer.from(s, 'base64').toString('utf-8') for ASCII text: characters
\* outside the alphabet are skipped, padding ends the data, every 4 characters
\* give 3 bytes
base64Decode(s) ==
  LET pads   == { i \in DOMAIN s : s[i] = "=" }
      data   == IF pads = {} THEN s
                ELSE SubSeq(s, 1, (CHOOSE i \in pads : \A j \in 1..(i - 1) : j \notin pads) - 1)
      digits == SelectSeq(data, isBase64Char)
      nbytes == (Len(digits) * 6) \div 8
      byte(k) ==
        LET q == (8 * k) \div 6
            r == (8 * k) % 6
            w == Base64Value[digits[q + 1]] * 64 + Base64Value[digits[q + 2]]
        IN  (w \div (2 ^ (4 - r))) % 256
  IN  [k \in 1..nbytes |-> CharOfByte(byte(k - 1))]

(***************************************************************************)
(* JavaScript values that are not known to be strings                      *)
(***************************************************************************)
JsString(s) == [t |-> "string", v |-> s]
JsObject    == [t |-> "object", v |-> <<>>]
JsArray(a)  == [t |-> "array", v |-> a]
JsNumber(n) == [t |-> "number", v |-> <<n>>]
\* an object with the given entries
JsObjectOf(entries) == [t |-> "object", v |-> entries]
Undefined   == [t |-> "undefined", v |-> <<>>]
EmptyString == JsString(<<>>)
\* ToBoolean: undefined and the empty string are falsy, objects and arrays
\* are truthy
Truthy(x)   == x.t \in {"object", "array"} \/ (x.t = "string" /\ Len(x.v) > 0)
\* a || b
OrElse(a, b) == IF Truthy(a) THEN a ELSE b

(***************************************************************************)
(* Content validator                                                       *)
(***************************************************************************)
MIN_TEXT_LENGTH     == 100
READABLE_RATIO_PCT  == 70
MEANINGFUL_RATIO_PCT == 30
MIN_WORD_LENGTH     == 3
MAX_WORD_LENGTH     == 20
MIN_GARBAGE_LENGTH  == 8

commonWords ==
  << <<"t","h","e">>, <<"a","n","d">>, <<"o","r">>, <<"b","u","t">>,
     <<"i","n">>, <<"o","n">>, <<"a","t">>, <<"t","o">>, <<"f","o","r">>,
     <<"o","f">>, <<"w","i","t","h">>, <<"b","y">>, <<"i","s">>,
     <<"a","r","e">>, <<"w","a","s">>, <<"w","e","r","e">>, <<"b","e">>,
     <<"b","e","e","n">>, <<"h","a","v","e">>, <<"h","a","s">>,
     <<"h","a","d">>, <<"d","o">>, <<"d","o","e","s">>, <<"d","i","d">>,
     <<"w","i","l","l">>, <<"w","o","u","l","d">>, <<"c","o","u","l","d">>,
     <<"s","h","o","u","l","d">>, <<"t","h","i","s">>, <<"t","h","a","t">>,
     <<"t","h","e","s","e">>, <<"t","h","o","s","e">>, <<"a">>, <<"a","n">> >>

\* the filter of line 104: not a random string, hex code or garbage
isMeaningfulWord(word) ==
  /\ Len(word) >= MIN_WORD_LENGTH
  /\ Len(word) <= MAX_WORD_LENGTH
  /\ ~(Len(word) >= MIN_GARBAGE_LENGTH /\ Range(word) \subseteq HexChars)
  /\ ~(Len(word) >= MIN_GARBAGE_LENGTH
       /\ Range(word) \subseteq (LowerChars \cup DigitChars \cup {"_"}))
  /\ Range(word) \cap VowelChars # {}
  /\ ~(Len(word) >= 1 /\ Range(word) \subseteq DigitChars)

readableCount(text) == Cardinality({ i \in DOMAIN text : text[i] \in ReadableChars })

meaningfulCount(words) ==
  Cardinality({ i \in DOMAIN words : isMeaningfulWord(words[i]) })

\* hasCommonWords matching whole words
hasCommonWords_wholeWords(text) ==
  \E words \in {splitWhitespace(toLowerCase(text))} :
    \E k \in DOMAIN commonWords : \E p \in DOMAIN words : words[p] = commonWords[k]

hasCommonWords(text) ==
  \E lower \in {toLowerCase(text)} :
    \E k \in DOMAIN commonWords : includes(lower, commonWords[k])

\* lengthCheck on the length of the text as it is
lengthCheck_untrimmed(text) == Len(text) >= MIN_TEXT_LENGTH

lengthCheck(text) == Len(text) > 0 /\ Len(trim(text)) >= MIN_TEXT_LENGTH

\* readableChars / text.length < 0.7 rejects
readableCheck(text) == readableCount(text) * 100 >= READABLE_RATIO_PCT * Len(text)

\* meaningfulWords.length / Math.max(words.length, 1) < 0.3 rejects
meaningfulCheck(text) ==
  \E lower \in {toLowerCase(text)} :
    \E words \in {splitWhitespace(lower)} :
      LET n     == Cardinality(DOMAIN words)
          total == IF n > 1 THEN n ELSE 1
      IN  meaningfulCount(words) * 100 >= MEANINGFUL_RATIO_PCT * total

\* isValidTextContent on a string
isValidTextContent(text) ==
  /\ lengthCheck(text)
  /\ readableCheck(text)
  /\ meaningfulCheck(text)
  /\ hasCommonWords(text)

\* isValidTextContent on any value: "true", "false", or "TypeError" when the
\* value is truthy and has no trim method
validatorVerdict(x) ==
  IF x.t = "string"
    THEN IF isValidTextContent(x.v) THEN "true" ELSE "false"
    ELSE "TypeError"


(***************************************************************************)
(* Sample inputs                                                           *)
(***************************************************************************)
\* how many times the sample texts repeat their sentence or token
SampleReps == 8

Sentence == <<"t","h","e"," ","c","a","t"," ","a","n","d"," ","t","h","e"," ","d","o","g"," ">>
HexToken == <<"a","1","b","2","c","3","d","4","a","1","b","2","c","3","d","4">>

EnglishText == Repeat(Sentence, SampleReps)
HexText     == Repeat(HexToken, SampleReps)
\* one character short of the minimum length once trimmed
ShortText   == SubSeq(EnglishText, 1, MIN_TEXT_LENGTH)
\* one character short of the minimum length as it is
TinyText    == SubSeq(EnglishText, 1, MIN_TEXT_LENGTH - 1)

FileTypes == {"application/pdf", "text/markdown", "text/plain", "image/png", ""}
FileNames == { <<"a",".","p","d","f">>, <<"A",".","P","D","F">>,
               <<"a",".","m","d">>, <<"a",".","t","x","t">>,
               <<"a",".","p","n","g">> }

(***************************************************************************)
(* State                                                                   *)
(***************************************************************************)
VARIABLES
  GEMINI_API_KEY,    \* TRUE when process.env.GEMINI_API_KEY is set
  JINA_API_KEY,      \* TRUE when process.env.JINA_API_KEY is set
  GITHUB_TOKEN,      \* TRUE when process.env.GITHUB_TOKEN is set
  endpoint,          \* "file" or "repo": the route that received the request
  request,           \* the request as received
  pc,                \* position of the handler
  methodIdx,         \* index of the loop over extractionMethods
  content,           \* let content
  extractionMethod,  \* let extractionMethod
  lastError,         \* let lastError
  analysisArgs,      \* arguments of the call of generateEnhancedFileAnalysis
                     \* and the statistics it computes before its fetch
  inflight,          \* outbound calls issued and not yet resolved
  calls,             \* outbound calls issued so far, in order
  log,               \* console lines of the extraction loop
  repoInfo,          \* const repoInfo
  contributors,      \* const contributors
  languages,         \* const languages
  repoData,          \* const repoData
  readmeReply,       \* what the README call answered
  candidate,         \* the text handed to isValidTextContent on its own
  valid,             \* what isValidTextContent returned for it
  modelReply,        \* what the analysis call answered
  response,          \* the response returned, status 0 while there is none
  repoUrl,           \* page state: useState('') of line 39
  pageFile,          \* page state: file, useState(null) of line 40
  loading,           \* page state: useState(false) of line 41
  pageRepoData,      \* page state: repoData, useState(null) of line 42
  pageAnalysis,      \* page state: analysis, useState(null) of line 43
  pageError,         \* page state: error, useState('') of line 44
  fetching,          \* the page's requests sent and not yet settled
  submitted,         \* how many requests the page has sent
  view               \* what the last render of the page produced

vars == <<GEMINI_API_KEY, JINA_API_KEY, GITHUB_TOKEN, endpoint, request, pc,
          methodIdx, content, extractionMethod, lastError, analysisArgs,
          inflight, calls, log, repoInfo, contributors, languages, repoData,
          readmeReply, candidate, valid, modelReply, response,
          repoUrl, pageFile, loading, pageRepoData, pageAnalysis, pageError,
          fetching, submitted, view>>

env == <<GEMINI_API_KEY, JINA_API_KEY, GITHUB_TOKEN, endpoint, request>>
repoVars == <<repoInfo, contributors, languages, repoData, readmeReply>>
fileVars == <<methodIdx, content, extractionMethod, lastError, analysisArgs, log>>
validatorVars == <<candidate, valid>>
pageVars == <<repoUrl, pageFile, loading, pageRepoData, pageAnalysis, pageError,
              fetching, submitted, view>>
NoReply  == [kind |-> "none", text |-> Undefined, decoded |-> [ok |-> FALSE]]
NoReadme == [kind |-> "none", ok |-> FALSE, content |-> Undefined]

Error(msg, arg) == [message |-> msg, arg |-> arg]
NoError     == Error("", "")
\* a decoded JSON value, as far as the handlers look at it: its type and its
\* length property
JsonVal(t, len) == [t |-> t, len |-> len]
JsonUndefined   == JsonVal("undefined", 0)
NoAnalysis  == [source |-> "none", summary |-> JsonUndefined,
                features |-> JsonUndefined, technologies |-> JsonUndefined,
                useCases |-> JsonUndefined, insights |-> JsonUndefined]
NoArgs      == [called |-> FALSE, content |-> EmptyString, filename |-> <<>>,
                extractionMethod |-> "", wordCount |-> 0]
NoRepoInfo  == [name |-> Undefined, description |-> Undefined,
                stargazers_count |-> Undefined, forks_count |-> Undefined,
                language |-> Undefined, topics |-> Undefined]
NoRepoData  == [name |-> Undefined, description |-> Undefined,
                stars |-> Undefined, forks |-> Undefined,
                language |-> Undefined, topics |-> Undefined,
                contributors |-> Undefined, languages |-> Undefined,
                readme |-> Undefined]
NoResponse  == [status |-> 0, error |-> <<>>, analysis |-> NoAnalysis,
                repoData |-> NoRepoData]

HTTP_OK          == 200
HTTP_BAD_REQUEST == 400
HTTP_SERVER_ERROR == 500

ErrorResponse(status, message) ==
  [status |-> status, error |-> message, analysis |-> NoAnalysis,
   repoData |-> NoRepoData]

\* a non-success status of a hosted API, as `${response.status}` prints it
FailureStatus == "503"

(***************************************************************************)
(* File route: type dispatch                                               *)
(***************************************************************************)
DotPdf == <<".","p","d","f">>
DotMd  == <<".","m","d">>
DotTxt == <<".","t","x","t">>

isPdfUpload(file) ==
  file.type = "application/pdf" \/ endsWith(toLowerCase(file.name), DotPdf)

\* isMarkdownUpload looking at the suffix alone
isMarkdownUpload_suffixOnly(file) == endsWith(toLowerCase(file.name), DotMd)

isMarkdownUpload(file) ==
  file.type = "text/markdown" \/ endsWith(toLowerCase(file.name), DotMd)

isPlainTextUpload(file) ==
  file.type = "text/plain" \/ endsWith(toLowerCase(file.name), DotTxt)

extractionMethods == <<"jina-ai", "gemini-vision", "pdf-js">>

PdfFailureMessage ==
  << "Failed to extract readable text from PDF. This PDF might be:",
     \* the bullet of each line is written as "*"
     "* Image-based (scanned document)",
     "* Password protected",
     "* Corrupted or using unsupported encoding",
     "* Contains only graphics/charts",
     "",
     "Please try:",
     "* Converting to text format first",
     "* Using OCR software if it's a scanned document",
     "* Ensuring the PDF has selectable text" >>

\* UnsupportedMessage naming the file instead of its declared type
UnsupportedMessage_name(file) ==
  << "Unsupported file type: ", file.name,
     ". Please upload PDF, Markdown (.md), or Text (.txt) files." >>

UnsupportedMessage(file) ==
  << "Unsupported file type: ", file.type,
     ". Please upload PDF, Markdown (.md), or Text (.txt) files." >>

FileFailure(error) ==
  ErrorResponse(HTTP_SERVER_ERROR,
                <<"Failed to analyze file: ", error.message, error.arg>>)


(***************************************************************************)
(* File route: the extraction strategies.  Each is a function of what the  *)
(* outside world answered; it returns a value or throws.                   *)
(***************************************************************************)
Returned(value) == [threw |-> FALSE, value |-> value, error |-> NoError]
Threw(error)    == [threw |-> TRUE, value |-> EmptyString, error |-> error]

\* a || b || c || ''
FirstTruthy(a, b, c) ==
  OrElse(a, OrElse(b, OrElse(c, EmptyString)))

\* !extractedText || extractedText.length < 100; the length of a value that
\* is not a string is undefined, and undefined < 100 is false
insufficient(extractedText) ==
  \/ ~Truthy(extractedText)
  \/ (extractedText.t = "string" /\ Len(extractedText.v) < MIN_TEXT_LENGTH)

\* what the hosted reader can answer
JinaAnswers ==
  { [kind |-> "neterr", data |-> Undefined, text |-> Undefined, content |-> Undefined],
    [kind |-> "http",   data |-> Undefined, text |-> Undefined, content |-> Undefined],
    [kind |-> "json",   data |-> Undefined, text |-> Undefined, content |-> Undefined],
    [kind |-> "json",   data |-> JsString(EnglishText), text |-> Undefined, content |-> Undefined],
    [kind |-> "json",   data |-> Undefined, text |-> JsString(HexText), content |-> Undefined],
    [kind |-> "json",   data |-> Undefined, text |-> Undefined, content |-> JsString(TinyText)],
    [kind |-> "json",   data |-> JsObject, text |-> Undefined, content |-> JsString(EnglishText)] }

extractPDFTextWithJina(answer) ==
  CASE answer.kind = "neterr" -> Threw(Error("fetch failed", ""))
    [] answer.kind = "http"   -> Threw(Error("Jina AI API error: ", FailureStatus))
    [] answer.kind = "json"   ->
         LET extractedText == FirstTruthy(answer.data, answer.text, answer.content)
         IN  IF insufficient(extractedText)
               THEN Threw(Error("Insufficient text extracted via Jina AI", ""))
               ELSE Returned(extractedText)

\* what the generative-language endpoint can answer to the transcription call
VisionAnswers ==
  { [kind |-> "neterr", text |-> Undefined],
    [kind |-> "http",   text |-> Undefined],
    [kind |-> "nocandidates", text |-> Undefined],
    [kind |-> "json",   text |-> Undefined],
    [kind |-> "json",   text |-> JsString(EnglishText)],
    [kind |-> "json",   text |-> JsString(ShortText)],
    [kind |-> "json",   text |-> JsString(TinyText)] }

extractPDFWithGeminiVision(answer) ==
  CASE answer.kind = "neterr" -> Threw(Error("fetch failed", ""))
    [] answer.kind = "http"   -> Threw(Error("Gemini Vision API error: ", FailureStatus))
    [] answer.kind = "nocandidates" ->
         Threw(Error("TypeError: Cannot read properties of undefined", ""))
    [] answer.kind = "json"   ->
         IF insufficient(answer.text)
           THEN Threw(Error("Insufficient text extracted via Gemini Vision", ""))
           ELSE Returned(answer.text)

PageOpen  == <<"\n","\n","-","-","-"," ","P","a","g","e"," ">>
PageClose == <<" ","-","-","-","\n","\n">>

\* the loop over the pages: fullText after page pageNum and the ones after it
RECURSIVE pagesText(_, _, _)
pagesText(pages, pageNum, fullText) ==
  IF pageNum > Len(pages) THEN fullText
  ELSE pagesText(pages, pageNum + 1,
         IF Len(trim(pages[pageNum])) > 0
           THEN fullText \o PageOpen \o Decimal(pageNum) \o PageClose \o pages[pageNum]
           ELSE fullText)

\* what the local parser can find: it rejects the document, or it yields the
\* text of each page
PdfjsAnswers ==
  { [kind |-> "reject", pages |-> <<>>],
    [kind |-> "pages",  pages |-> <<>>],
    [kind |-> "pages",  pages |-> << <<" ">> >>],
    [kind |-> "pages",  pages |-> << EnglishText >>],
    [kind |-> "pages",  pages |-> << <<>>, HexText >>],
    [kind |-> "pages",  pages |-> << Sentence, Sentence >>] }

extractPDFTextWithPDFJS(answer) ==
  CASE answer.kind = "reject" -> Threw(Error("Invalid PDF structure", ""))
    [] answer.kind = "pages"  ->
         LET fullText == pagesText(answer.pages, 1, <<>>)
         IN  IF Len(trim(fullText)) = 0 \/ Len(fullText) < MIN_TEXT_LENGTH
               THEN Threw(Error("Insufficient text extracted via PDF.js", ""))
               ELSE Returned(JsString(trim(fullText)))


(***************************************************************************)
(* File route: the handler                                                 *)
(***************************************************************************)
Line(event, name) == [event |-> event, method |-> name]

Respond(r) ==
  /\ response' = r
  /\ pc' = "done"

\* where the loop goes after the iteration of methodIdx that did not break
AfterIteration == IF methodIdx < Len(extractionMethods) THEN "try" ELSE "chain_exit"

\* the catch block of the loop: content and extractionMethod keep what the
\* try block had assigned before the exception
LoopCatch(error) ==
  /\ lastError' = error
  /\ log' = Append(log, Line("failed", extractionMethods[methodIdx]))
  /\ methodIdx' = methodIdx + 1
  /\ pc' = AfterIteration

\* method.fn threw before anything was assigned
StrategyThrew(error) ==
  /\ LoopCatch(error)
  /\ UNCHANGED <<content, extractionMethod>>

\* break: the loop is left with its index where it is
breakLoop == [pc |-> "chain_exit", methodIdx |-> methodIdx]

\* the next iteration, or the end of the loop after the last method
nextIteration == [pc |-> AfterIteration, methodIdx |-> methodIdx + 1]

\* OnValid without the break of line 40
OnValid_noBreak == nextIteration

\* line 40: what the loop does when the validator accepted the content
OnValid == breakLoop

\* reportedName as if the name were taken once, before the loop
reportedName_first == extractionMethods[1]

\* line 35: the name assigned to extractionMethod
reportedName == extractionMethods[methodIdx]

\* OnInvalid without the reset of line 43
OnInvalid_keep(value) == value

\* the content kept after the validator rejected value
OnInvalid(value) == EmptyString

\* method.fn returned value: lines 34-44
StrategyReturned(value) ==
  LET name == extractionMethods[methodIdx]
      verdict == validatorVerdict(value)
  IN  /\ extractionMethod' = reportedName
      /\ CASE verdict = "true" ->
                /\ content' = value
                /\ log' = Append(log, Line("succeeded", name))
                /\ pc' = OnValid.pc
                /\ methodIdx' = OnValid.methodIdx
                /\ UNCHANGED lastError
           [] verdict = "false" ->
                /\ content' = OnInvalid(value)
                /\ log' = Append(log, Line("invalid", name))
                /\ methodIdx' = methodIdx + 1
                /\ pc' = AfterIteration
                /\ UNCHANGED lastError
           [] verdict = "TypeError" ->
                /\ content' = value
                /\ LoopCatch(Error("TypeError: text.trim is not a function", ""))

StrategyDone(result) ==
  IF result.threw THEN StrategyThrew(result.error)
  ELSE StrategyReturned(result.value)

IsFile(req) == req.kind = "file"

\* lines 9-68: the form is read and the upload is dispatched on its type
FileReceive ==
  /\ endpoint = "file" /\ pc = "start"
  /\ CASE request.kind = "badform" ->
            /\ Respond(FileFailure(Error("Failed to parse body as FormData.", "")))
            /\ UNCHANGED <<methodIdx, content, extractionMethod>>
       [] request.kind = "nofile" ->
            /\ Respond(ErrorResponse(HTTP_BAD_REQUEST, <<"No file provided">>))
            /\ UNCHANGED <<methodIdx, content, extractionMethod>>
       [] request.kind = "field" ->
            \* a text field named file: it has no name to lower-case
            /\ Respond(FileFailure(Error("TypeError: Cannot read properties of undefined", "")))
            /\ UNCHANGED <<methodIdx, content, extractionMethod>>
       [] IsFile(request) /\ isPdfUpload(request) ->
            /\ pc' = "try"
            /\ methodIdx' = 1
            /\ UNCHANGED <<content, extractionMethod, response>>
       [] IsFile(request) /\ ~isPdfUpload(request)
            /\ (isMarkdownUpload(request) \/ isPlainTextUpload(request)) ->
            /\ content' = JsString(request.text)
            /\ extractionMethod' = "direct-text"
            /\ pc' = "analyze"
            /\ UNCHANGED <<methodIdx, response>>
       [] OTHER ->
            /\ Respond(ErrorResponse(HTTP_BAD_REQUEST, UnsupportedMessage(request)))
            /\ UNCHANGED <<methodIdx, content, extractionMethod>>
  /\ UNCHANGED <<env, validatorVars, pageVars, repoVars, modelReply, lastError, analysisArgs, inflight, calls, log>>

Issue(call) ==
  /\ inflight' = inflight \cup {call}
  /\ calls' = Append(calls, call)

Resolve(call) ==
  /\ call \in inflight
  /\ inflight' = inflight \ {call}
  /\ UNCHANGED calls

\* lines 31-33: the head of the loop over extractionMethods
LoopHead ==
  /\ pc = "try"
  /\ log' = Append(log, Line("trying", extractionMethods[methodIdx]))
  /\ pc' = "call"
  /\ UNCHANGED <<env, validatorVars, pageVars, repoVars, modelReply, methodIdx, content, extractionMethod, lastError,
                 analysisArgs, inflight, calls, response>>

\* CallJina posting the file whether or not the credential is there
CallJina_noKeyCheck ==
  /\ pc = "call" /\ extractionMethods[methodIdx] = "jina-ai"
  /\ Issue("jina-reader")
  /\ pc' = "await_jina"
  /\ UNCHANGED <<methodIdx, content, extractionMethod, lastError, log>>
  /\ UNCHANGED <<env, validatorVars, pageVars, repoVars, modelReply, analysisArgs, response>>

\* lines 140-162: the reader strategy needs its credential, then posts the file
CallJina ==
  /\ pc = "call" /\ extractionMethods[methodIdx] = "jina-ai"
  /\ IF ~JINA_API_KEY
       THEN /\ StrategyThrew(Error("Jina AI API key not configured", ""))
            /\ UNCHANGED <<inflight, calls>>
       ELSE /\ Issue("jina-reader")
            /\ pc' = "await_jina"
            /\ UNCHANGED <<methodIdx, content, extractionMethod, lastError, log>>
  /\ UNCHANGED <<env, validatorVars, pageVars, repoVars, modelReply, analysisArgs, response>>

\* lines 164-175 and 34-49: the reader answered
AwaitJina ==
  /\ pc = "await_jina"
  /\ Resolve("jina-reader")
  /\ \E answer \in JinaAnswers :
       \E result \in {extractPDFTextWithJina(answer)} : StrategyDone(result)
  /\ UNCHANGED <<env, validatorVars, pageVars, repoVars, modelReply, analysisArgs, response>>

\* lines 178-214: the vision strategy needs its credential, then posts the file
CallGeminiVision ==
  /\ pc = "call" /\ extractionMethods[methodIdx] = "gemini-vision"
  /\ IF ~GEMINI_API_KEY
       THEN /\ StrategyThrew(Error("Gemini API key not configured", ""))
            /\ UNCHANGED <<inflight, calls>>
       ELSE /\ Issue("gemini-vision")
            /\ pc' = "await_vision"
            /\ UNCHANGED <<methodIdx, content, extractionMethod, lastError, log>>
  /\ UNCHANGED <<env, validatorVars, pageVars, repoVars, modelReply, analysisArgs, response>>

\* lines 216-231 and 34-49: the vision model answered
AwaitGeminiVision ==
  /\ pc = "await_vision"
  /\ Resolve("gemini-vision")
  /\ \E answer \in VisionAnswers :
       \E result \in {extractPDFWithGeminiVision(answer)} : StrategyDone(result)
  /\ UNCHANGED <<env, validatorVars, pageVars, repoVars, modelReply, analysisArgs, response>>

\* lines 234-243: the local strategy loads the parser and opens the document
CallPDFJS ==
  /\ pc = "call" /\ extractionMethods[methodIdx] = "pdf-js"
  /\ pc' = "await_pdfjs"
  /\ UNCHANGED <<env, validatorVars, pageVars, repoVars, modelReply, methodIdx, content, extractionMethod, lastError,
                 analysisArgs, inflight, calls, log, response>>

\* lines 245-269 and 34-49: the local parser finished
AwaitPDFJS ==
  /\ pc = "await_pdfjs"
  /\ \E answer \in PdfjsAnswers :
       \E result \in {extractPDFTextWithPDFJS(answer)} : StrategyDone(result)
  /\ UNCHANGED <<env, validatorVars, pageVars, repoVars, modelReply, analysisArgs, inflight, calls, response>>

\* lines 52-56: after the loop
ChainExit ==
  /\ pc = "chain_exit"
  /\ IF ~Truthy(content)
       THEN Respond(ErrorResponse(HTTP_BAD_REQUEST, PdfFailureMessage))
       ELSE /\ pc' = "analyze"
            /\ UNCHANGED response
  /\ UNCHANGED <<env, validatorVars, pageVars, repoVars, modelReply, methodIdx, content, extractionMethod, lastError,
                 analysisArgs, inflight, calls, log>>


(***************************************************************************)
(* File route: the document analysis                                       *)
(***************************************************************************)
MIN_SUMMARY_LENGTH  == 100
MIN_FEATURES        == 3
MIN_USE_CASES       == 2
MIN_INSIGHTS_LENGTH == 100

\* the lengths of the fallback's template strings without the interpolated
\* values, and the sizes of its lists
FALLBACK_SUMMARY_LENGTH  == 215
FALLBACK_INSIGHTS_LENGTH == 314
FALLBACK_FEATURES        == 5
FALLBACK_TECHNOLOGIES    == 3
FALLBACK_USE_CASES       == 3

\* text.match(/\{[\s\S]*\}/): from the first "{" to the last "}" after it,
\* the empty sequence when there is no match
jsonMatch(text) ==
  LET opens  == { i \in DOMAIN text : text[i] = "{" }
      first  == CHOOSE i \in opens : \A j \in opens : i <= j
      closes == { j \in DOMAIN text : text[j] = "}" /\ j > first }
      last   == CHOOSE j \in closes : \A k \in closes : j >= k
  IN  IF opens = {} \/ closes = {} THEN <<>> ELSE SubSeq(text, first, last)

NoJsonText    == <<"n","o"," ","j","s","o","n"," ","h","e","r","e">>
ReversedText  == <<"}"," ","a","n","d"," ","{">>
\* a reply with an object literal in it, its inside left out
BracesText    == <<"o","k"," ","{",".",".",".","}"," ","e","n","d">>

SyntaxError == [ok |-> FALSE, summary |-> JsonUndefined, features |-> JsonUndefined,
                technologies |-> JsonUndefined, useCases |-> JsonUndefined,
                insights |-> JsonUndefined]

\* what JSON.parse can return for the matched text
DecodedObjects ==
  { [ok |-> TRUE, summary |-> s, features |-> f,
     technologies |-> JsonVal("array", 0), useCases |-> u, insights |-> i] :
      s \in { JsonUndefined, JsonVal("string", MIN_SUMMARY_LENGTH),
              JsonVal("string", MIN_SUMMARY_LENGTH + 1) },
      f \in { JsonUndefined, JsonVal("array", MIN_FEATURES - 1),
              JsonVal("array", MIN_FEATURES), JsonVal("string", MIN_FEATURES) },
      u \in { JsonVal("array", MIN_USE_CASES - 1), JsonVal("array", MIN_USE_CASES) },
      i \in { JsonVal("string", MIN_INSIGHTS_LENGTH),
              JsonVal("string", MIN_INSIGHTS_LENGTH + 1) } }

\* what the generative-language endpoint can answer to the analysis call
ModelAnswers ==
  { [kind |-> k, text |-> Undefined, decoded |-> SyntaxError] :
      k \in {"neterr", "http", "nocandidates", "json"} }
  \cup { [kind |-> "json", text |-> JsString(t), decoded |-> SyntaxError] :
           t \in {NoJsonText, ReversedText, BracesText} }
  \cup { [kind |-> "json", text |-> JsString(BracesText), decoded |-> d] :
           d \in DecodedObjects }

Produced(analysis) == [threw |-> FALSE, analysis |-> analysis, error |-> NoError]
Failed(error)      == [threw |-> TRUE, analysis |-> NoAnalysis, error |-> error]

\* x && x.length > n
longerThan(x, n) == x.t # "undefined" /\ x.len > n
\* x && x.length >= n
atLeast(x, n) == x.t # "undefined" /\ x.len >= n

\* passesQuality with >= where the summary needs >
passesQuality_offByOne(parsed) ==
  /\ atLeast(parsed.summary, MIN_SUMMARY_LENGTH)
  /\ atLeast(parsed.features, MIN_FEATURES)
  /\ atLeast(parsed.useCases, MIN_USE_CASES)
  /\ longerThan(parsed.insights, MIN_INSIGHTS_LENGTH)

\* passesQuality without the checks of the two lists
passesQuality_noLists(parsed) ==
  /\ longerThan(parsed.summary, MIN_SUMMARY_LENGTH)
  /\ longerThan(parsed.insights, MIN_INSIGHTS_LENGTH)

\* lines 393-396: the quality check of the decoded reply
passesQuality(parsed) ==
  /\ longerThan(parsed.summary, MIN_SUMMARY_LENGTH)
  /\ atLeast(parsed.features, MIN_FEATURES)
  /\ atLeast(parsed.useCases, MIN_USE_CASES)
  /\ longerThan(parsed.insights, MIN_INSIGHTS_LENGTH)

\* content.split(/\s+/).filter(word => word.length > 0).length
wordCount(text) ==
  Cardinality({ p \in pieceStarts(text) : Len(pieceAt(text, p)) > 0 })

\* lines 405-421: the analysis synthesized from the statistics
fallbackAnalysis(words) ==
  LET digits == Len(Decimal(words))
  IN  [source |-> "fallback",
       summary |-> JsonVal("string", FALLBACK_SUMMARY_LENGTH + digits),
       features |-> JsonVal("array", FALLBACK_FEATURES),
       technologies |-> JsonVal("array", FALLBACK_TECHNOLOGIES),
       useCases |-> JsonVal("array", FALLBACK_USE_CASES),
       insights |-> JsonVal("string", FALLBACK_INSIGHTS_LENGTH + digits)]

modelAnalysis(parsed) ==
  [source |-> "model", summary |-> parsed.summary, features |-> parsed.features,
   technologies |-> parsed.technologies, useCases |-> parsed.useCases,
   insights |-> parsed.insights]

\* onApiError as if the catch returned the fallback
onApiError_fallback == Produced(fallbackAnalysis(0))

\* what the catch of line 422 does with a failed call
onApiError == Failed(Error("Failed to generate AI analysis", ""))

\* lines 362-425: generateEnhancedFileAnalysis once the call has answered
generateEnhancedFileAnalysis(answer, words) ==
  IF answer.kind # "json" THEN onApiError
  ELSE IF /\ answer.text.t = "string"
          /\ jsonMatch(answer.text.v) # <<>>
          /\ answer.decoded.ok
          /\ passesQuality(answer.decoded)
         THEN Produced(modelAnalysis(answer.decoded))
         ELSE Produced(fallbackAnalysis(words))

\* lines 70-76 and 272-378: the content is logged, the analysis is called, it
\* needs its credential and posts the prompt
AnalyzeBegin ==
  /\ endpoint = "file" /\ pc = "analyze"
  /\ IF content.t # "string"
       THEN /\ Respond(FileFailure(Error("TypeError: content.substring is not a function", "")))
            /\ UNCHANGED <<analysisArgs, inflight, calls>>
       ELSE /\ analysisArgs' = [called |-> TRUE, content |-> content,
                                filename |-> request.name,
                                extractionMethod |-> extractionMethod,
                                wordCount |-> wordCount(content.v)]
            /\ IF ~GEMINI_API_KEY
                 THEN /\ Respond(FileFailure(Error("Gemini API key not configured", "")))
                      /\ UNCHANGED <<inflight, calls>>
                 ELSE /\ Issue("gemini-analysis")
                      /\ pc' = "await_model"
                      /\ UNCHANGED response
  /\ UNCHANGED <<env, validatorVars, pageVars, repoVars, modelReply, methodIdx, content, extractionMethod, lastError, log>>

FileSuccess(analysis) ==
  [status |-> HTTP_OK, error |-> <<>>, analysis |-> analysis,
   repoData |-> NoRepoData]

\* lines 380-425 and 78-85: the model answered and the response is sent
AwaitFileAnalysis ==
  /\ endpoint = "file" /\ pc = "await_model"
  /\ Resolve("gemini-analysis")
  /\ \E answer \in ModelAnswers :
       LET result == generateEnhancedFileAnalysis(answer, analysisArgs.wordCount)
       IN  /\ modelReply' = answer
           /\ IF result.threw THEN Respond(FileFailure(result.error))
              ELSE Respond(FileSuccess(result.analysis))
  /\ UNCHANGED <<env, validatorVars, pageVars, repoVars, methodIdx, content, extractionMethod, lastError,
                 analysisArgs, log>>

(***************************************************************************)
(* Repository route                                                        *)
(***************************************************************************)
GithubPrefix == <<"g","i","t","h","u","b",".","c","o","m","/">>

\* matchStarts with the dot of the pattern left unescaped
matchStarts_anyDot(url) ==
  { i \in DOMAIN url :
      /\ i + Len(GithubPrefix) - 1 <= Len(url)
      /\ \A d \in DOMAIN GithubPrefix :
           GithubPrefix[d] = "." \/ url[i + d - 1] = GithubPrefix[d]
      /\ \E k \in (i + Len(GithubPrefix) + 1)..(Len(url) - 1) :
           /\ url[k] = "/"
           /\ \A j \in (i + Len(GithubPrefix))..(k - 1) : url[j] # "/"
           /\ url[k + 1] # "/" }

\* the positions where /github\.com\/([^\/]+)\/([^\/]+)/ matches: the prefix,
\* one or more characters other than "/", a "/", and one more such character
matchStarts(url) ==
  { i \in DOMAIN url :
      /\ i + Len(GithubPrefix) - 1 <= Len(url)
      /\ SubSeq(url, i, i + Len(GithubPrefix) - 1) = GithubPrefix
      /\ \E k \in (i + Len(GithubPrefix) + 1)..(Len(url) - 1) :
           /\ url[k] = "/"
           /\ \A j \in (i + Len(GithubPrefix))..(k - 1) : url[j] # "/"
           /\ url[k + 1] # "/" }

\* repoUrl.match(...): the owner and the repository of the leftmost match
matchRepoUrl(url) ==
  LET starts == matchStarts(url)
      i      == CHOOSE x \in starts : \A y \in starts : x <= y
      from   == i + Len(GithubPrefix)
      slash  == CHOOSE k \in from..Len(url) :
                  url[k] = "/" /\ \A j \in from..(k - 1) : url[j] # "/"
      after  == { k \in (slash + 1)..Len(url) : url[k] = "/" }
      stop   == IF after = {} THEN Len(url)
                ELSE (CHOOSE k \in after : \A j \in (slash + 1)..(k - 1) : j \notin after) - 1
  IN  IF starts = {} THEN [matched |-> FALSE, owner |-> <<>>, repo |-> <<>>]
      ELSE [matched |-> TRUE, owner |-> SubSeq(url, from, slash - 1),
            repo |-> SubSeq(url, slash + 1, stop)]

RepoFailure ==
  ErrorResponse(HTTP_SERVER_ERROR, <<"Failed to analyze repository">>)

\* what api.github.com can answer for the repository: no answer, or a JSON
\* body, of the repository or of an error
DemoName == <<"d","e","m","o">>
RepoInfoAnswers ==
  { [kind |-> "neterr", ok |-> FALSE, body |-> NoRepoInfo],
    [kind |-> "json", ok |-> FALSE, body |-> NoRepoInfo],
    [kind |-> "json", ok |-> TRUE,
     body |-> [name |-> JsString(DemoName), description |-> Undefined,
               stargazers_count |-> JsNumber(0), forks_count |-> JsNumber(0),
               language |-> Undefined, topics |-> Undefined]],
    [kind |-> "json", ok |-> TRUE,
     body |-> [name |-> JsString(DemoName), description |-> JsString(Sentence),
               stargazers_count |-> JsNumber(7), forks_count |-> JsNumber(1),
               language |-> JsString(<<"G","o">>), topics |-> JsArray(<<"ai">>)]] }

ErrorBody == JsObjectOf(<< [key |-> "message", num |-> 0] >>)

ContributorsAnswers ==
  { [kind |-> "neterr", ok |-> FALSE, body |-> Undefined],
    [kind |-> "json", ok |-> FALSE, body |-> ErrorBody],
    [kind |-> "json", ok |-> TRUE, body |-> JsArray(<<>>)],
    [kind |-> "json", ok |-> TRUE,
     body |-> JsArray(<< [login |-> "ann", contributions |-> 9],
                         [login |-> "bob", contributions |-> 2] >>)],
    [kind |-> "json", ok |-> TRUE,
     body |-> JsArray(<< [login |-> "ann", contributions |-> 9],
                         [login |-> "bob", contributions |-> 8],
                         [login |-> "cid", contributions |-> 7],
                         [login |-> "dee", contributions |-> 6],
                         [login |-> "eve", contributions |-> 5],
                         [login |-> "fay", contributions |-> 4] >>)] }

LanguagesAnswers ==
  { [kind |-> "neterr", ok |-> FALSE, body |-> Undefined],
    [kind |-> "json", ok |-> FALSE, body |-> ErrorBody],
    [kind |-> "json", ok |-> TRUE,
     body |-> JsObjectOf(<< [key |-> "Go", num |-> 1200] >>)] }

\* "# demo\nthe readme" in base64, broken into lines
ReadmeBase64 ==
  <<"I","y","B","k","Z","W","1","v","\n","C","n","R","o","Z","S","B","y",
    "Z","W","F","k","b","W","U","=","\n">>

ReadmeAnswers ==
  { [kind |-> "neterr", ok |-> FALSE, content |-> Undefined],
    [kind |-> "json", ok |-> FALSE, content |-> Undefined],
    [kind |-> "json", ok |-> TRUE, content |-> JsString(ReadmeBase64)] }

\* lines 59-69: the README, empty when the fetch or the decoding throws
readmeOf(answer) ==
  IF answer.kind = "json" /\ answer.content.t = "string"
    THEN JsString(base64Decode(answer.content.v))
    ELSE EmptyString

\* assembleRepoData without the defaults of the optional fields
assembleRepoData_noDefaults(info, contribs, langs, readme) ==
  [name |-> info.name,
   description |-> info.description,
   stars |-> info.stargazers_count,
   forks |-> info.forks_count,
   language |-> info.language,
   topics |-> info.topics,
   contributors |-> contribs,
   languages |-> langs,
   readme |-> readme]

\* lines 71-83
assembleRepoData(info, contribs, langs, readme) ==
  [name |-> info.name,
   description |-> OrElse(info.description, EmptyString),
   stars |-> info.stargazers_count,
   forks |-> info.forks_count,
   language |-> OrElse(info.language, JsString(<<"U","n","k","n","o","w","n">>)),
   topics |-> OrElse(info.topics, JsArray(<<>>)),
   contributors |-> OrElse(contribs, JsArray(<<>>)),
   languages |-> OrElse(langs, JsObjectOf(<<>>)),
   readme |-> readme]

REPO_SUMMARY_CHARS        == 200
ELLIPSIS_LENGTH           == 3
PLACEHOLDER_INSIGHTS_LENGTH == 31

\* degradedAnalysis keeping the whole text as the summary
degradedAnalysis_wholeText(text) ==
  [source |-> "fallback",
   summary |-> JsonVal("string", Len(text) + ELLIPSIS_LENGTH),
   features |-> JsonVal("array", 1),
   technologies |-> JsonVal("array", 1),
   useCases |-> JsonVal("array", 1),
   insights |-> JsonVal("string", PLACEHOLDER_INSIGHTS_LENGTH)]

\* lines 146-152: the degraded result
degradedAnalysis(text) ==
  [source |-> "fallback",
   summary |-> JsonVal("string", Len(substring(text, 0, REPO_SUMMARY_CHARS)) + ELLIPSIS_LENGTH),
   features |-> JsonVal("array", 1),
   technologies |-> JsonVal("array", 1),
   useCases |-> JsonVal("array", 1),
   insights |-> JsonVal("string", PLACEHOLDER_INSIGHTS_LENGTH)]

EmptyObject == [ok |-> TRUE, summary |-> JsonUndefined, features |-> JsonUndefined,
                technologies |-> JsonUndefined, useCases |-> JsonUndefined,
                insights |-> JsonUndefined]
GoodObject  == [ok |-> TRUE,
                summary |-> JsonVal("string", MIN_SUMMARY_LENGTH + 1),
                features |-> JsonVal("array", MIN_FEATURES),
                technologies |-> JsonVal("array", 0),
                useCases |-> JsonVal("array", MIN_USE_CASES),
                insights |-> JsonVal("string", MIN_INSIGHTS_LENGTH + 1)]

\* a reply in prose, longer than the summary of the degraded result
LongText == Repeat(Sentence, SampleReps + 3)

\* what the generative-language endpoint can answer on this route
RepoModelAnswers ==
  { [kind |-> k, text |-> Undefined, decoded |-> SyntaxError] :
      k \in {"neterr", "http", "nocandidates", "json"} }
  \cup { [kind |-> "json", text |-> JsString(t), decoded |-> SyntaxError] :
           t \in {NoJsonText, BracesText, LongText} }
  \cup { [kind |-> "json", text |-> JsString(BracesText), decoded |-> d] :
           d \in {EmptyObject, GoodObject} }

\* lines 132-152: generateAnalysis once the call has answered; the status of
\* the answer is not looked at, an answer without candidates has no text to
\* read, and a text that is undefined has no substring
generateAnalysis(answer) ==
  IF answer.kind = "neterr" THEN Failed(Error("fetch failed", ""))
  ELSE IF answer.kind # "json"
    THEN Failed(Error("TypeError: Cannot read properties of undefined", ""))
  ELSE IF answer.text.t # "string"
    THEN Failed(Error("TypeError: Cannot read properties of undefined", ""))
  ELSE IF jsonMatch(answer.text.v) # <<>> /\ answer.decoded.ok
    THEN Produced(modelAnalysis(answer.decoded))
  ELSE Produced(degradedAnalysis(answer.text.v))

\* ResolveThenIssue issuing the next call without awaiting the one before
ResolveThenIssue_overlap(call, next) ==
  /\ call \in inflight
  /\ inflight' = inflight \cup {next}
  /\ calls' = Append(calls, next)

ResolveThenIssue(call, next) ==
  /\ call \in inflight
  /\ inflight' = (inflight \ {call}) \cup {next}
  /\ calls' = Append(calls, next)

\* lines 9-20 and 36-41: the body is read, the URL is matched and the first
\* GitHub call is issued
RepoReceive ==
  /\ endpoint = "repo" /\ pc = "start"
  /\ IF request.kind = "badjson" \/ request.repoUrl.t # "string"
       THEN /\ Respond(RepoFailure)
            /\ UNCHANGED <<inflight, calls>>
       ELSE IF ~matchRepoUrl(request.repoUrl.v).matched
         THEN /\ Respond(ErrorResponse(HTTP_BAD_REQUEST, <<"Invalid GitHub URL">>))
              /\ UNCHANGED <<inflight, calls>>
         ELSE /\ Issue("github-repo")
              /\ pc' = "await_repo"
              /\ UNCHANGED response
  /\ UNCHANGED <<env, validatorVars, pageVars, fileVars, modelReply, repoVars>>

\* lines 42-48
AwaitRepoInfo ==
  /\ pc = "await_repo"
  /\ \E answer \in RepoInfoAnswers :
       IF answer.kind = "neterr"
         THEN /\ Resolve("github-repo")
              /\ Respond(RepoFailure)
              /\ UNCHANGED repoInfo
         ELSE /\ ResolveThenIssue("github-repo", "github-contributors")
              /\ repoInfo' = answer.body
              /\ pc' = "await_contributors"
              /\ UNCHANGED response
  /\ UNCHANGED <<env, validatorVars, pageVars, fileVars, modelReply, contributors, languages, repoData, readmeReply>>

\* lines 49-55
AwaitContributors ==
  /\ pc = "await_contributors"
  /\ \E answer \in ContributorsAnswers :
       IF answer.kind = "neterr"
         THEN /\ Resolve("github-contributors")
              /\ Respond(RepoFailure)
              /\ UNCHANGED contributors
         ELSE /\ ResolveThenIssue("github-contributors", "github-languages")
              /\ contributors' = answer.body
              /\ pc' = "await_languages"
              /\ UNCHANGED response
  /\ UNCHANGED <<env, validatorVars, pageVars, fileVars, modelReply, repoInfo, languages, repoData, readmeReply>>

\* lines 56-64
AwaitLanguages ==
  /\ pc = "await_languages"
  /\ \E answer \in LanguagesAnswers :
       IF answer.kind = "neterr"
         THEN /\ Resolve("github-languages")
              /\ Respond(RepoFailure)
              /\ UNCHANGED languages
         ELSE /\ ResolveThenIssue("github-languages", "github-readme")
              /\ languages' = answer.body
              /\ pc' = "await_readme"
              /\ UNCHANGED response
  /\ UNCHANGED <<env, validatorVars, pageVars, fileVars, modelReply, repoInfo, contributors, repoData, readmeReply>>

\* lines 65-83, 20-23 and 86-130: the README answered, the metadata is
\* assembled, and the analysis needs its credential and posts the prompt
AwaitReadme ==
  /\ pc = "await_readme"
  /\ \E answer \in ReadmeAnswers :
       /\ readmeReply' = answer
       /\ repoData' = assembleRepoData(repoInfo, contributors, languages, readmeOf(answer))
  /\ IF ~GEMINI_API_KEY
       THEN /\ Resolve("github-readme")
            /\ Respond(RepoFailure)
       ELSE /\ ResolveThenIssue("github-readme", "gemini-analysis")
            /\ pc' = "await_model"
            /\ UNCHANGED response
  /\ UNCHANGED <<env, validatorVars, pageVars, fileVars, modelReply, repoInfo, contributors, languages>>

RepoSuccess(data, analysis) ==
  [status |-> HTTP_OK, error |-> <<>>, analysis |-> analysis, repoData |-> data]

\* lines 132-152 and 25-32: the model answered and the response is sent
AwaitRepoAnalysis ==
  /\ endpoint = "repo" /\ pc = "await_model"
  /\ Resolve("gemini-analysis")
  /\ \E answer \in RepoModelAnswers :
       LET result == generateAnalysis(answer)
       IN  /\ modelReply' = answer
           /\ IF result.threw THEN Respond(RepoFailure)
              ELSE Respond(RepoSuccess(repoData, result.analysis))
  /\ UNCHANGED <<env, validatorVars, pageVars, fileVars, repoVars>>

(***************************************************************************)
(* Client page: its state and what it renders                              *)
(***************************************************************************)
\* null in file, repoData and analysis; a value that is not null carries the
\* number of the request whose response it was read from
NoFile         == [chosen |-> FALSE, size |-> 0, type |-> "", name |-> <<>>]
NoPageData     == [of |-> 0, value |-> NoRepoData]
NoPageAnalysis == [of |-> 0, route |-> "none", value |-> NoAnalysis]

COLORS == <<"#3b82f6", "#10b981", "#f59e0b", "#ef4444", "#8b5cf6">>
TOP_CONTRIBUTORS == 5

NoChart    == [shown |-> FALSE, threw |-> FALSE, placeholder |-> FALSE, rows |-> <<>>]
ChartThrew == [shown |-> TRUE, threw |-> TRUE, placeholder |-> FALSE, rows |-> <<>>]

\* contributors-chart.tsx: slice and map are called on the property before it
\* is tested, and only an array has both
ContributorsChart(list) ==
  IF list.t # "array" THEN ChartThrew
  ELSE LET n == IF Len(list.v) < TOP_CONTRIBUTORS THEN Len(list.v) ELSE TOP_CONTRIBUTORS
           topContributors ==
             [ i \in 1..n |-> [name  |-> list.v[i].login,
                               value |-> list.v[i].contributions,
                               fill  |-> COLORS[((i - 1) % Len(COLORS)) + 1]] ]
       IN  IF Len(list.v) = 0
             THEN [shown |-> TRUE, threw |-> FALSE, placeholder |-> TRUE, rows |-> <<>>]
             ELSE [shown |-> TRUE, threw |-> FALSE, placeholder |-> FALSE,
                   rows |-> topContributors]

\* x.map(...) in the results section: only an array has map
hasMap(x) == x.t = "array"

\* page.tsx lines 238-363: the results section. The overview calls
\* toLocaleString on stars and forks, the analysis card maps features,
\* technologies and useCases, and the charts are rendered after both
renderPage(data, shownAnalysis) ==
  IF /\ data.of # 0
     /\ (data.value.stars.t = "undefined" \/ data.value.forks.t = "undefined")
    THEN [threw |-> TRUE, chart |-> NoChart]
  ELSE IF /\ shownAnalysis.of # 0
          /\ ~(/\ hasMap(shownAnalysis.value.features)
               /\ hasMap(shownAnalysis.value.technologies)
               /\ hasMap(shownAnalysis.value.useCases))
    THEN [threw |-> TRUE, chart |-> NoChart]
  ELSE IF data.of = 0 THEN [threw |-> FALSE, chart |-> NoChart]
  ELSE LET chart == ContributorsChart(data.value.contributors)
       IN  [threw |-> chart.threw, chart |-> chart]

\* page.tsx lines 39-44: the state of the page when it is mounted
PageMounted ==
  /\ repoUrl = <<>>
  /\ pageFile = NoFile
  /\ loading = FALSE
  /\ pageRepoData = NoPageData
  /\ pageAnalysis = NoPageAnalysis
  /\ pageError = <<>>
  /\ fetching = {}
  /\ submitted = 0
  /\ view = renderPage(NoPageData, NoPageAnalysis)

(***************************************************************************)
(* Requests and the specification                                          *)
(***************************************************************************)
FileRequests ==
  { [kind |-> k, type |-> "", name |-> <<>>, text |-> <<>>] :
      k \in {"badform", "nofile", "field"} }
  \cup { [kind |-> "file", type |-> t, name |-> n, text |-> x] :
           t \in FileTypes, n \in FileNames, x \in {<<>>, ShortText} }

RepoUrls ==
  { <<"h","t","t","p","s",":","/","/","g","i","t","h","u","b",".","c","o","m","/","o","/","r">>,
    <<"g","i","t","h","u","b",".","c","o","m","/","o","/","r","/","t","r","e","e","/","x">>,
    <<"g","i","t","h","u","b",".","c","o","m","/","o">>,
    <<"g","i","t","h","u","b",".","c","o","m","/","/","r">>,
    <<"g","i","t","h","u","b",".","c","o","m","/","o","/">>,
    <<"g","i","t","h","u","b","X","c","o","m","/","o","/","r">>,
    <<"h","t","t","p","s",":","/","/","g","i","t","l","a","b",".","c","o","m","/","o","/","r">>,
    <<>> }

RepoRequests ==
  { [kind |-> "badjson", repoUrl |-> Undefined],
    [kind |-> "json", repoUrl |-> Undefined] }
  \cup { [kind |-> "json", repoUrl |-> JsString(u)] : u \in RepoUrls }

\* each route reads the credentials its own module declares
Init ==
  /\ \/ /\ endpoint = "file"
        /\ request \in FileRequests
        /\ JINA_API_KEY \in BOOLEAN
        /\ GITHUB_TOKEN = FALSE
     \/ /\ endpoint = "repo"
        /\ request \in RepoRequests
        /\ JINA_API_KEY = FALSE
        /\ GITHUB_TOKEN \in BOOLEAN
  /\ GEMINI_API_KEY \in BOOLEAN
  /\ repoInfo = NoRepoInfo
  /\ contributors = Undefined
  /\ languages = Undefined
  /\ repoData = NoRepoData
  /\ readmeReply = NoReadme
  /\ candidate = <<>>
  /\ valid = "pending"
  /\ modelReply = NoReply
  /\ pc = "start"
  /\ methodIdx = 0
  /\ content = EmptyString
  /\ extractionMethod = "unknown"
  /\ lastError = NoError
  /\ analysisArgs = NoArgs
  /\ inflight = {}
  /\ calls = <<>>
  /\ log = <<>>
  /\ response = NoResponse
  /\ PageMounted

Next ==
  \/ FileReceive
  \/ LoopHead
  \/ CallJina
  \/ AwaitJina
  \/ CallGeminiVision
  \/ AwaitGeminiVision
  \/ CallPDFJS
  \/ AwaitPDFJS
  \/ ChainExit
  \/ AnalyzeBegin
  \/ AwaitFileAnalysis
  \/ RepoReceive
  \/ AwaitRepoInfo
  \/ AwaitContributors
  \/ AwaitLanguages
  \/ AwaitReadme
  \/ AwaitRepoAnalysis

Spec == Init /\ [][Next]_vars

\* every awaited call resolves or fails and the handler goes on from there
LiveSpec == Init /\ [][Next]_vars /\ WF_vars(Next)

(***************************************************************************)
(* The content validator on its own                                        *)
(***************************************************************************)
handlerVars == <<env, fileVars, repoVars, modelReply, inflight, calls, response>>

\* prose cut around the minimum length, with and without whitespace around it
LengthInputs ==
  { Repeat(<<" ">>, l) \o SubSeq(base, 1, n) \o Repeat(<<"\n">>, r) :
      base \in {EnglishText, Tail(EnglishText)},
      n \in (MIN_TEXT_LENGTH - 3)..(MIN_TEXT_LENGTH + 2),
      l \in {0, 2}, r \in {0, 2} }

\* a token of hexadecimal digits
HexTokens ==
  { HexToken, <<"a","1","b","2","c","3">>, <<"0","b","1","c","2","d","3","f">>,
    <<"c","a","f","e">> }

\* a token repeated, with or without whitespace after it, up to the minimum
\* length and beyond
HexInputs ==
  { Repeat(token \o sep, (MIN_TEXT_LENGTH \div Len(token \o sep)) + 1) :
      token \in HexTokens, sep \in {<<>>, <<" ">>} }

PlainSentence ==
  <<"T","h","e"," ","c","a","t"," ","s","a","t"," ","o","n"," ","t",
    "h","e"," ","m","a","t",","," ","a","n","d"," ","t","h","e"," ",
    "d","o","g"," ","r","a","n","."," ">>
LongWordsSentence ==
  <<"t","h","e"," ","d","o","c","u","m","e","n","t"," ","c","o","n",
    "t","a","i","n","s"," ","i","m","p","o","r","t","a","n","t"," ",
    "i","n","f","o","r","m","a","t","i","o","n"," ","a","n","d"," ",
    "t","e","c","h","n","i","c","a","l"," ","k","n","o","w","l","e",
    "d","g","e"," ">>
ShortWordsSentence ==
  <<"i","f"," ","i","t"," ","i","s"," ","s","o"," ","w","e"," ","g",
    "o"," ","t","o"," ","t","h","e"," ","e","n","d"," ","a","n","d",
    " ","d","o"," ","a","s"," ","w","e"," ","d","o"," ">>

\* paragraphs of English prose of 150 characters and more, with "the" and
\* "and" in them
ParagraphInputs ==
  { Repeat(PlainSentence, 4), Repeat(LongWordsSentence, 3),
    Repeat(ShortWordsSentence, 4), EnglishText,
    [i \in DOMAIN EnglishText |->
       IF EnglishText[i] \in LowerChars
         THEN CHOOSE c \in UpperChars : LowerMap[c] = EnglishText[i]
         ELSE EnglishText[i]] }

TenWords == <<" ","c","a","t"," ","d","o","g"," ","t","h","e"," ","1","1"," ",
            "2","2"," ","3","3"," ","4","4"," ","5","5"," ","6","6"," ","7",
            "7">>

\* texts at the edges of the other three checks
RatioInputs ==
  { <<>>,
    [i \in 1..(MIN_TEXT_LENGTH + 50) |-> " "],
    Repeat(<<"t","h","e"," ","c","a","t","#","#","#">>, 12),
    Repeat(<<"t","h","e"," ","c","a","#","#","#","#">>, 12),
    Repeat(TenWords, 5),
    Tail(Repeat(TenWords, 5)),
    Repeat(<<"z","u","l","u"," ","k","i","w","i"," ","e","m","u"," ","j","u","m","p"," ">>, 8),
    Repeat(<<"c","a","t"," ","d","o","g"," ">>, 20) }

ValidatorInputs == LengthInputs \cup HexInputs \cup ParagraphInputs \cup RatioInputs

ValidatorInit ==
  /\ endpoint = "validator"
  /\ request = [kind |-> "text"]
  /\ GEMINI_API_KEY = FALSE /\ JINA_API_KEY = FALSE /\ GITHUB_TOKEN = FALSE
  /\ candidate \in ValidatorInputs
  /\ valid = "pending"
  /\ pc = "v_length"
  /\ repoInfo = NoRepoInfo
  /\ contributors = Undefined
  /\ languages = Undefined
  /\ repoData = NoRepoData
  /\ readmeReply = NoReadme
  /\ modelReply = NoReply
  /\ methodIdx = 0
  /\ content = EmptyString
  /\ extractionMethod = "unknown"
  /\ lastError = NoError
  /\ analysisArgs = NoArgs
  /\ inflight = {}
  /\ calls = <<>>
  /\ log = <<>>
  /\ response = NoResponse
  /\ PageMounted

\* return false
ReturnFalse ==
  /\ valid' = "false"
  /\ pc' = "v_returned"

\* lines 89-91
CheckLength ==
  /\ pc = "v_length"
  /\ IF ~lengthCheck(candidate) THEN ReturnFalse
     ELSE pc' = "v_readable" /\ UNCHANGED valid
  /\ UNCHANGED <<handlerVars, pageVars, candidate>>

\* lines 94-100
CheckReadable ==
  /\ pc = "v_readable"
  /\ IF ~readableCheck(candidate) THEN ReturnFalse
     ELSE pc' = "v_meaningful" /\ UNCHANGED valid
  /\ UNCHANGED <<handlerVars, pageVars, candidate>>

\* lines 103-119
CheckMeaningful ==
  /\ pc = "v_meaningful"
  /\ IF ~meaningfulCheck(candidate) THEN ReturnFalse
     ELSE pc' = "v_common" /\ UNCHANGED valid
  /\ UNCHANGED <<handlerVars, pageVars, candidate>>

\* lines 122-137
CheckCommonWords ==
  /\ pc = "v_common"
  /\ IF ~hasCommonWords(candidate) THEN ReturnFalse
     ELSE valid' = "true" /\ pc' = "v_returned"
  /\ UNCHANGED <<handlerVars, pageVars, candidate>>

ValidatorNext ==
  \/ CheckLength
  \/ CheckReadable
  \/ CheckMeaningful
  \/ CheckCommonWords

ValidatorSpec == ValidatorInit /\ [][ValidatorNext]_vars


(***************************************************************************)
(* Client page: the handlers                                               *)
(***************************************************************************)
\* how many requests the page sends
MaxSubmissions == 3

\* 10 * 1024 * 1024
MAX_FILE_SIZE == 10485760

allowedTypes      == {"application/pdf", "text/markdown", "text/plain"}
allowedExtensions == {DotPdf, DotMd, DotTxt}

\* page.tsx lines 83-86
isValidType(upload) ==
  \/ upload.type \in allowedTypes
  \/ \E ext \in allowedExtensions : endsWith(toLowerCase(upload.name), ext)

\* what the user can type into the URL field and choose in the file field
PageUrls ==
  { <<>>,
    <<"g","i","t","h","u","b",".","c","o","m","/","o","/","r">>,
    <<"g","i","t","h","u","b",".","c","o","m","/","o">> }
PageFiles ==
  { [chosen |-> TRUE, size |-> MAX_FILE_SIZE, type |-> "application/pdf",
     name |-> <<"a",".","p","d","f">>],
    [chosen |-> TRUE, size |-> MAX_FILE_SIZE + 1, type |-> "application/pdf",
     name |-> <<"a",".","p","d","f">>],
    [chosen |-> TRUE, size |-> 1, type |-> "", name |-> <<"A",".","P","D","F">>],
    [chosen |-> TRUE, size |-> 1, type |-> "image/png",
     name |-> <<"a",".","p","n","g">>] }

\* part_003 lines 25 and 71-83: the bodies the repository route sends with
\* status 200, one for each way its five upstream calls can answer
RepoOkResponses ==
  { RepoSuccess(assembleRepoData(i.body, c.body, l.body, readmeOf(r)),
                generateAnalysis(m).analysis) :
      i \in { a \in RepoInfoAnswers : a.kind = "json" },
      c \in { a \in ContributorsAnswers : a.kind = "json" },
      l \in { a \in LanguagesAnswers : a.kind = "json" },
      r \in ReadmeAnswers,
      m \in { a \in RepoModelAnswers : ~generateAnalysis(a).threw } }

\* part_003 lines 12-32: what the repository route answers to a URL
RepoResponses(url) ==
  IF ~matchRepoUrl(url).matched
    THEN { ErrorResponse(HTTP_BAD_REQUEST, <<"Invalid GitHub URL">>) }
    ELSE RepoOkResponses \cup { RepoFailure }

\* part_002 lines 52-85: what the file route answers to an upload
FileResponses ==
  { FileSuccess(r.analysis) :
      r \in { q \in { generateEnhancedFileAnalysis(a, wordCount(t)) :
                        a \in ModelAnswers,
                        t \in {<<>>, ShortText, EnglishText} } :
              ~q.threw } }
  \cup { ErrorResponse(HTTP_BAD_REQUEST, PdfFailureMessage),
         FileFailure(onApiError.error) }

\* how a fetch of the page can settle: rejected, answered with a body that is
\* not JSON, or answered by the route
Settlements(bodies) ==
  { [kind |-> k, body |-> NoResponse] : k \in {"neterr", "nonjson"} }
  \cup { [kind |-> "json", body |-> b] : b \in bodies }

\* line 187
SetRepoUrl ==
  /\ endpoint = "page" /\ ~view.threw
  /\ \E u \in PageUrls : repoUrl' = u
  /\ UNCHANGED <<pageFile, loading, pageRepoData, pageAnalysis, pageError,
                 fetching, submitted, view>>
  /\ UNCHANGED <<handlerVars, validatorVars, pc>>

\* line 206
SetFile ==
  /\ endpoint = "page" /\ ~view.threw
  /\ \E f \in PageFiles \cup {NoFile} : pageFile' = f
  /\ UNCHANGED <<repoUrl, loading, pageRepoData, pageAnalysis, pageError,
                 fetching, submitted, view>>
  /\ UNCHANGED <<handlerVars, validatorVars, pc>>

\* lines 93-105 and 49-57: loading is set, the error is cleared and the
\* request is sent
Send(req) ==
  /\ submitted < MaxSubmissions
  /\ loading' = TRUE
  /\ pageError' = <<>>
  /\ submitted' = submitted + 1
  /\ fetching' = fetching \cup { req }

\* the repository button lacking the loading test
RepoButtonDisabled_noLoading == repoUrl = <<>>

\* line 192
RepoButtonDisabled == loading \/ repoUrl = <<>>

\* line 221
FileButtonDisabled == loading \/ ~pageFile.chosen

\* lines 190-196 and 46-57: a click on the enabled button runs the handler
handleRepoSubmit ==
  /\ endpoint = "page" /\ ~view.threw
  /\ ~RepoButtonDisabled
  /\ IF repoUrl = <<>>
       THEN UNCHANGED <<loading, pageError, submitted, fetching>>
       ELSE Send([route |-> "repo", id |-> submitted + 1, url |-> repoUrl])
  /\ UNCHANGED <<repoUrl, pageFile, pageRepoData, pageAnalysis, view>>
  /\ UNCHANGED <<handlerVars, validatorVars, pc>>

\* lines 219-225 and 73-105
handleFileSubmit ==
  /\ endpoint = "page" /\ ~view.threw
  /\ ~FileButtonDisabled
  /\ IF ~pageFile.chosen
       THEN UNCHANGED <<loading, pageError, submitted, fetching>>
     ELSE IF pageFile.size > MAX_FILE_SIZE
       THEN /\ pageError' = <<"File size must be less than 10MB">>
            /\ UNCHANGED <<loading, submitted, fetching>>
     ELSE IF ~isValidType(pageFile)
       THEN /\ pageError' = <<"Please upload a PDF, Markdown (.md), or Text (.txt) file">>
            /\ UNCHANGED <<loading, submitted, fetching>>
     ELSE Send([route |-> "file", id |-> submitted + 1, url |-> <<>>])
  /\ UNCHANGED <<repoUrl, pageFile, pageRepoData, pageAnalysis, view>>
  /\ UNCHANGED <<handlerVars, validatorVars, pc>>

\* the catch and the finally of both handlers: the message is shown, the
\* results stay, loading is reset
SettleFailed(req, message) ==
  /\ pageError' = message
  /\ UNCHANGED <<pageRepoData, pageAnalysis>>

\* lines 53-70: the fetch of handleRepoSubmit settles
RepoSettles ==
  /\ endpoint = "page"
  /\ \E req \in fetching :
       /\ req.route = "repo"
       /\ fetching' = fetching \ { req }
       /\ \E outcome \in Settlements(RepoResponses(req.url)) :
            IF outcome.kind = "neterr"
              THEN SettleFailed(req, <<"Failed to fetch">>)
            ELSE IF outcome.kind = "nonjson" \/ outcome.body.status # HTTP_OK
              THEN SettleFailed(req, <<"Failed to analyze repository">>)
            ELSE /\ pageRepoData' = [of |-> req.id, value |-> outcome.body.repoData]
                 /\ pageAnalysis' = [of |-> req.id, route |-> "repo",
                                     value |-> outcome.body.analysis]
                 /\ UNCHANGED pageError
  /\ loading' = FALSE
  /\ view' = renderPage(pageRepoData', pageAnalysis')
  /\ UNCHANGED <<repoUrl, pageFile, submitted>>
  /\ UNCHANGED <<handlerVars, validatorVars, pc>>

\* fileSucceeded leaving the repository's data on the page
fileSucceeded_keepRepoData(req, body) ==
  /\ pageAnalysis' = [of |-> req.id, route |-> "file", value |-> body.analysis]
  /\ UNCHANGED pageRepoData

\* lines 113-114
fileSucceeded(req, body) ==
  /\ pageAnalysis' = [of |-> req.id, route |-> "file", value |-> body.analysis]
  /\ pageRepoData' = NoPageData

\* lines 102-120: the fetch of handleFileSubmit settles
FileSettles ==
  /\ endpoint = "page"
  /\ \E req \in fetching :
       /\ req.route = "file"
       /\ fetching' = fetching \ { req }
       /\ \E outcome \in Settlements(FileResponses) :
            IF outcome.kind = "neterr"
              THEN SettleFailed(req, <<"Failed to fetch">>)
            ELSE IF outcome.kind = "nonjson"
              THEN SettleFailed(req, <<"SyntaxError: Unexpected token">>)
            ELSE IF outcome.body.status # HTTP_OK
              THEN SettleFailed(req, IF outcome.body.error # <<>> THEN outcome.body.error
                                     ELSE <<"Failed to analyze file">>)
            ELSE /\ fileSucceeded(req, outcome.body)
                 /\ UNCHANGED pageError
  /\ loading' = FALSE
  /\ view' = renderPage(pageRepoData', pageAnalysis')
  /\ UNCHANGED <<repoUrl, pageFile, submitted>>
  /\ UNCHANGED <<handlerVars, validatorVars, pc>>

\* the page in the browser, no handler of the routes running in this module's
\* other variables
PageInit ==
  /\ endpoint = "page"
  /\ request = [kind |-> "none"]
  /\ GEMINI_API_KEY = FALSE /\ JINA_API_KEY = FALSE /\ GITHUB_TOKEN = FALSE
  /\ candidate = <<>>
  /\ valid = "pending"
  /\ pc = "page"
  /\ repoInfo = NoRepoInfo
  /\ contributors = Undefined
  /\ languages = Undefined
  /\ repoData = NoRepoData
  /\ readmeReply = NoReadme
  /\ modelReply = NoReply
  /\ methodIdx = 0
  /\ content = EmptyString
  /\ extractionMethod = "unknown"
  /\ lastError = NoError
  /\ analysisArgs = NoArgs
  /\ inflight = {}
  /\ calls = <<>>
  /\ log = <<>>
  /\ response = NoResponse
  /\ PageMounted

PageNext ==
  \/ SetRepoUrl
  \/ SetFile
  \/ handleRepoSubmit
  \/ handleFileSubmit
  \/ RepoSettles
  \/ FileSettles

PageSpec == PageInit /\ [][PageNext]_vars


(***************************************************************************)
(* Properties                                                              *)
(***************************************************************************)
IsTrying(l) == l.event = "trying"
Tried == SelectSeq(log, IsTrying)
Succeeded == \E k \in DOMAIN log : log[k].event = "succeeded"
HasSuffix(req, suffix) == endsWith(toLowerCase(req.name), suffix)
DeclaredPdf(req) == req.type = "application/pdf" \/ HasSuffix(req, DotPdf)
FileDone == endpoint = "file" /\ pc = "done"
RepoDone == endpoint = "repo" /\ pc = "done"
Says(message) == \E i \in DOMAIN response.error : response.error[i] = message

\* C1: for a PDF upload the strategies are tried in the order jina-ai,
\* gemini-vision, pdf-js, each at most once; a strategy is tried only after
\* every earlier one failed or had its output rejected, never after one was
\* accepted, and the chain goes on until one is accepted or all were tried.
C1_StrategyOrder ==
  /\ Len(Tried) <= 3
  /\ \A i \in DOMAIN Tried : Tried[i].method = <<"jina-ai", "gemini-vision", "pdf-js">>[i]
  /\ \A k \in DOMAIN log : log[k].event = "trying" =>
       \A j \in 1..(k - 1) :
         /\ log[j].event # "succeeded"
         /\ log[j].event = "trying" =>
              /\ log[j + 1].event \in {"failed", "invalid"}
              /\ log[j + 1].method = log[j].method
  /\ (FileDone /\ IsFile(request) /\ DeclaredPdf(request)) =>
       /\ Len(Tried) >= 1
       /\ log[Len(log)].event = "succeeded" \/ Len(Tried) = 3

\* the reader threw, the vision output was rejected, the local output passed
C1_Witness ==
  /\ pc = "done" /\ Len(log) = 6
  /\ log[2].event = "failed" /\ log[4].event = "invalid"
  /\ log[6] = Line("succeeded", "pdf-js")

\* C2: whenever a strategy's output passed the validator, extractionMethod,
\* and the method handed to the analysis, is the name of that strategy.
C2_ReportedMethod ==
  (endpoint = "file" /\ Succeeded) =>
    /\ log[Len(log)].event = "succeeded"
    /\ extractionMethod = log[Len(log)].method
    /\ pc = "done" => analysisArgs.called
    /\ analysisArgs.called => analysisArgs.extractionMethod = log[Len(log)].method

\* the reader threw and the vision strategy returned valid text
C2_Witness ==
  /\ analysisArgs.called
  /\ log = << Line("trying", "jina-ai"), Line("failed", "jina-ai"),
              Line("trying", "gemini-vision"), Line("succeeded", "gemini-vision") >>
  /\ analysisArgs.extractionMethod = "gemini-vision"

\* C3: when all three strategies were tried and none was accepted, the
\* response is 400 and its message lists the four suspected causes.
C3_AllFailedIs400 ==
  (FileDone /\ Len(Tried) = 3 /\ ~Succeeded) =>
    /\ response.status = 400
    /\ Says("* Image-based (scanned document)")
    /\ Says("* Password protected")
    /\ Says("* Corrupted or using unsupported encoding")
    /\ Says("* Ensuring the PDF has selectable text")

\* C4 as stated: a failed analysis call on the file route ends in the
\* fallback analysis.
C4_FailedCallGivesFallback ==
  (FileDone /\ modelReply.kind \in {"neterr", "http"}) =>
    response.status = 200 /\ response.analysis.source = "fallback"

\* C4 as amended: a failed analysis call on the file route (a rejected fetch
\* or a non-success status) is rethrown as "Failed to generate AI analysis"
\* and answered with status 500 and no analysis.
C4_FailedCallIs500 ==
  (FileDone /\ modelReply.kind \in {"neterr", "http"}) =>
    /\ response.status = 500
    /\ response.error = <<"Failed to analyze file: ", "Failed to generate AI analysis", "">>
    /\ response.analysis = NoAnalysis

C4_Witness ==
  FileDone /\ modelReply.kind = "http" /\ response.status = 500

\* C5: when the analysis call on the file route answered with candidates, the
\* response is 200; it carries the decoded object exactly when an object was
\* found, it decoded, and its summary is longer than 100, its features at
\* least 3, its use cases at least 2 and its insights longer than 100;
\* otherwise it carries the fallback.
C5_ModelObjectIffQuality ==
  (FileDone /\ modelReply.kind = "json") =>
    LET d == modelReply.decoded
        good == /\ modelReply.text.t = "string"
                /\ jsonMatch(modelReply.text.v) # <<>>
                /\ d.ok
                /\ d.summary.t # "undefined" /\ d.summary.len > 100
                /\ d.features.t # "undefined" /\ d.features.len >= 3
                /\ d.useCases.t # "undefined" /\ d.useCases.len >= 2
                /\ d.insights.t # "undefined" /\ d.insights.len > 100
    IN  /\ response.status = 200
        /\ good => /\ response.analysis.source = "model"
                   /\ response.analysis.summary = d.summary
                   /\ response.analysis.features = d.features
                   /\ response.analysis.useCases = d.useCases
                   /\ response.analysis.insights = d.insights
        /\ ~good => response.analysis.source = "fallback"

\* a decoded object whose only fault is a summary of exactly 100 characters
C5_Witness ==
  /\ FileDone /\ modelReply.kind = "json" /\ modelReply.decoded.ok
  /\ modelReply.decoded.summary = JsonVal("string", 100)
  /\ modelReply.decoded.features = JsonVal("array", 3)
  /\ modelReply.decoded.useCases = JsonVal("array", 2)
  /\ modelReply.decoded.insights = JsonVal("string", 101)
  /\ response.analysis.source = "fallback"

MeetsInvariant(analysis) ==
  /\ analysis.summary.t # "undefined" /\ analysis.summary.len > 0
  /\ analysis.insights.t # "undefined" /\ analysis.insights.len > 0
  /\ analysis.features.t # "undefined" /\ analysis.features.len >= 3
  /\ analysis.useCases.t # "undefined" /\ analysis.useCases.len >= 2

DeclaredText(req) ==
  \/ req.type \in {"text/markdown", "text/plain"}
  \/ HasSuffix(req, DotMd) \/ HasSuffix(req, DotTxt)

ReadDirectly ==
  /\ log = <<>>
  /\ pc \notin {"try", "call", "await_jina", "await_vision", "await_pdfjs", "chain_exit"}
  /\ \A i \in DOMAIN calls : calls[i] \notin {"jina-reader", "gemini-vision"}
  /\ extractionMethod = "direct-text"
  /\ content = JsString(request.text)

\* C7 as stated: once an upload that its declared type or its suffix
\* identifies as markdown or plain text is dispatched, no extraction strategy
\* runs, the content is the file's text and the method is direct-text.
C7_TextIsReadDirectly ==
  (endpoint = "file" /\ IsFile(request) /\ pc # "start" /\ DeclaredText(request))
    => ReadDirectly

\* C7 as amended: the same, for the uploads that neither the declared type
\* application/pdf nor a .pdf suffix identifies as a PDF.
C7_TextNotPdfIsReadDirectly ==
  (endpoint = "file" /\ IsFile(request) /\ pc # "start" /\ DeclaredText(request)
     /\ ~DeclaredPdf(request))
    => ReadDirectly

\* a markdown type with a suffix that says nothing
C7_Witness ==
  /\ FileDone /\ IsFile(request)
  /\ request.type = "text/markdown" /\ HasSuffix(request, <<".","p","n","g">>)
  /\ response.status = 200 /\ analysisArgs.extractionMethod = "direct-text"

Rejected ==
  /\ response.status = 400
  /\ response.error = << "Unsupported file type: ", request.type,
                         ". Please upload PDF, Markdown (.md), or Text (.txt) files." >>
  /\ calls = <<>> /\ log = <<>> /\ ~analysisArgs.called

\* C8 as stated: the uploads accepted are those with the type application/pdf
\* or a suffix .pdf, .md or .txt; any other is answered 400 with a message
\* naming its declared type, with no strategy and no model call.
C8_AcceptedBySuffix ==
  (FileDone /\ IsFile(request)) =>
    IF DeclaredPdf(request) \/ HasSuffix(request, DotMd) \/ HasSuffix(request, DotTxt)
      THEN ~Says("Unsupported file type: ")
      ELSE Rejected

\* C8 as amended: the uploads accepted are those with the type
\* application/pdf, text/markdown or text/plain or a suffix .pdf, .md or .txt;
\* any other is answered 400 with a message naming its declared type, with
\* no strategy and no model call.
C8_AcceptedByTypeOrSuffix ==
  (FileDone /\ IsFile(request)) =>
    IF DeclaredPdf(request) \/ DeclaredText(request)
      THEN ~Says("Unsupported file type: ")
      ELSE Rejected

C8_Witness ==
  /\ FileDone /\ IsFile(request) /\ request.type = "image/png"
  /\ response.status = 400 /\ Says("Unsupported file type: ")

NonMatchingUrls ==
  { <<"g","i","t","h","u","b",".","c","o","m","/","o">>,
    <<"g","i","t","h","u","b",".","c","o","m","/","/","r">>,
    <<"g","i","t","h","u","b",".","c","o","m","/","o","/">>,
    <<"g","i","t","h","u","b","X","c","o","m","/","o","/","r">>,
    <<"h","t","t","p","s",":","/","/","g","i","t","l","a","b",".","c","o","m","/","o","/","r">>,
    <<>> }

\* C9: a repoUrl that does not match github.com/{owner}/{repo} is answered
\* 400 "Invalid GitHub URL" with no outbound call, and a repoUrl that matches
\* is not answered so.
C9_InvalidUrlIs400 ==
  (RepoDone /\ request.kind = "json" /\ request.repoUrl.t = "string") =>
    IF request.repoUrl.v \in NonMatchingUrls
      THEN /\ response.status = 400
           /\ response.error = <<"Invalid GitHub URL">>
           /\ calls = <<>>
      ELSE calls # <<>> /\ response.status # 400

C9_Witness ==
  /\ RepoDone /\ request.repoUrl.t = "string"
  /\ request.repoUrl.v = <<"g","i","t","h","u","b","X","c","o","m","/","o","/","r">>
  /\ response.status = 400

\* C10: without the generative-language credential no response is 200, and
\* a request that came as far as the analysis is answered with the message
\* of the missing credential.
C10_MissingKeyIsReported ==
  (pc = "done" /\ ~GEMINI_API_KEY) =>
    /\ response.status # 200
    /\ (analysisArgs.called \/ repoData # NoRepoData) =>
         Says("Gemini API key not configured")


\* C11: without the document-reading credential the reader strategy makes no
\* outbound call and is logged as failed, the vision strategy is tried next,
\* and a PDF that a later strategy extracts validly is answered 200 once the
\* analysis call answers; without the GitHub token a repository request that
\* fails has another cause of failing.
C11_OptionalCredentialsDegrade ==
  /\ (endpoint = "file" /\ ~JINA_API_KEY) =>
       /\ \A i \in DOMAIN calls : calls[i] # "jina-reader"
       /\ Len(log) >= 2 =>
            /\ log[2] = Line("failed", "jina-ai")
            /\ lastError.message = "Jina AI API key not configured" \/ Len(log) > 2
       /\ Len(log) >= 3 => log[3] = Line("trying", "gemini-vision")
       /\ (FileDone /\ Succeeded /\ modelReply.kind = "json") => response.status = 200
  /\ (RepoDone /\ ~GITHUB_TOKEN /\ response.status # 200) =>
       \/ request.kind = "badjson"
       \/ request.repoUrl.t # "string"
       \/ request.repoUrl.v \in NonMatchingUrls
       \/ ~GEMINI_API_KEY
       \/ calls[Len(calls)] # "gemini-analysis"
       \/ modelReply.kind # "json"
       \/ modelReply.text.t # "string"

\* no reader credential, the vision strategy extracts, the response is 200
C11_Witness ==
  /\ FileDone /\ ~JINA_API_KEY /\ response.status = 200
  /\ log = << Line("trying", "jina-ai"), Line("failed", "jina-ai"),
              Line("trying", "gemini-vision"), Line("succeeded", "gemini-vision") >>
  /\ calls = <<"gemini-vision", "gemini-analysis">>

\* C12: a hosted call that answered with a non-success status is treated as
\* failed: no 200 response is built after a failed analysis call, and no 200
\* response carries the body of a failed GitHub call as repository metadata.
C12_FailedCallBodyUnused ==
  (pc = "done" /\ response.status = 200) =>
    /\ modelReply.kind = "json"
    /\ endpoint = "repo" =>
         /\ response.repoData.name # Undefined
         /\ response.repoData.contributors # ErrorBody
         /\ response.repoData.languages # ErrorBody

\* C13: on the repository route, a reply text with no object in it, or with
\* one that does not decode, is answered 200 with the degraded result: a
\* summary of the first 200 characters of the text and an ellipsis, one
\* placeholder feature, technology and use case, and the placeholder
\* insights; a reply that decodes is answered 200 with the decoded object as
\* it is.
C13_RepoDegradedResult ==
  (RepoDone /\ modelReply.kind = "json" /\ modelReply.text.t = "string") =>
    LET text == modelReply.text.v
        decoded == modelReply.decoded
        cut == IF Len(text) < 200 THEN Len(text) ELSE 200
    IN  /\ response.status = 200
        /\ (text \in {NoJsonText, LongText} \/ ~decoded.ok) =>
             /\ response.analysis.source = "fallback"
             /\ response.analysis.summary = JsonVal("string", cut + 3)
             /\ response.analysis.features = JsonVal("array", 1)
             /\ response.analysis.technologies = JsonVal("array", 1)
             /\ response.analysis.useCases = JsonVal("array", 1)
             /\ response.analysis.insights = JsonVal("string", 31)
        /\ (text = BracesText /\ decoded.ok) =>
             /\ response.analysis.source = "model"
             /\ response.analysis.summary = decoded.summary
             /\ response.analysis.features = decoded.features
             /\ response.analysis.technologies = decoded.technologies
             /\ response.analysis.useCases = decoded.useCases
             /\ response.analysis.insights = decoded.insights

\* a reply of more than 200 characters of prose
C13_Witness ==
  /\ RepoDone /\ modelReply.text = JsString(LongText) /\ Len(LongText) > 200
  /\ response.status = 200 /\ response.analysis.summary = JsonVal("string", 203)

\* C14: once the README call has answered, whatever it answered, the
\* metadata is assembled and the request goes on to the analysis: a README
\* call that was rejected or answered without content gives readme = "", the
\* name, stars and forks are those fetched, and a description, language or
\* topics that is missing becomes "", "Unknown" or [].
C14_OptionalDataDefaults ==
  (endpoint = "repo" /\ readmeReply.kind # "none") =>
    /\ repoData # NoRepoData
    /\ GEMINI_API_KEY => Len(calls) = 5 /\ calls[5] = "gemini-analysis"
    /\ (readmeReply.kind = "neterr" \/ ~readmeReply.ok) => repoData.readme = [t |-> "string", v |-> <<>>]
    /\ repoData.name = repoInfo.name
    /\ repoData.stars = repoInfo.stargazers_count
    /\ repoData.forks = repoInfo.forks_count
    /\ repoData.description =
         IF repoInfo.description.t = "undefined" THEN [t |-> "string", v |-> <<>>]
         ELSE repoInfo.description
    /\ repoData.language =
         IF repoInfo.language.t = "undefined"
           THEN [t |-> "string", v |-> <<"U","n","k","n","o","w","n">>]
         ELSE repoInfo.language
    /\ repoData.topics =
         IF repoInfo.topics.t = "undefined" THEN [t |-> "array", v |-> <<>>]
         ELSE repoInfo.topics

\* the README call was rejected, the repository has no description, language
\* or topics, and the response is 200
C14_Witness ==
  /\ RepoDone /\ response.status = 200
  /\ readmeReply.kind = "neterr"
  /\ repoInfo.name = JsString(DemoName) /\ repoInfo.description.t = "undefined"
  /\ response.repoData.readme.v = <<>>
  /\ response.repoData.language.v = <<"U","n","k","n","o","w","n">>
  /\ response.repoData.name = JsString(DemoName)

ValidatorDone == endpoint = "validator" /\ pc = "v_returned"

\* the characters of s from its first to its last one that is not whitespace
TrimmedLength(s) ==
  Cardinality({ i \in DOMAIN s :
                  /\ \E j \in 1..i : s[j] \notin {" ", "\t", "\n", "\r", "\f"}
                  /\ \E k \in i..Len(s) : s[k] \notin {" ", "\t", "\n", "\r", "\f"} })

\* C15: for every text of fewer than 100 characters once trimmed, the empty
\* text included, the validator returns false.
C15_ShortTextIsInvalid ==
  (ValidatorDone /\ TrimmedLength(candidate) < 100) => valid = "false"

\* 99 characters of prose inside whitespace that brings the text over 100
C15_Witness ==
  /\ ValidatorDone /\ TrimmedLength(candidate) = 99 /\ Len(candidate) > 100
  /\ valid = "false"

\* C16: for every text of at least 100 characters that is one token of
\* hexadecimal digits repeated, with or without whitespace between the
\* repetitions, the validator returns false, and no common English word
\* appears in the text.
C16_HexTextIsInvalid ==
  (ValidatorDone /\ candidate \in HexInputs /\ Len(candidate) >= 100) =>
    /\ valid = "false"
    /\ \A k \in DOMAIN commonWords : ~includes(toLowerCase(candidate), commonWords[k])

\* C17: for every paragraph of English prose of at least 150 characters with
\* "the" and "and" in it, the validator returns true, whatever the lengths of
\* its other words.
C17_EnglishParagraphIsValid ==
  (/\ ValidatorDone /\ candidate \in ParagraphInputs /\ Len(candidate) >= 150
   /\ includes(toLowerCase(candidate), <<"t","h","e">>)
   /\ includes(toLowerCase(candidate), <<"a","n","d">>))
    => valid = "true"

White == {" ", "\t", "\n", "\r", "\f"}

\* the share of letters, digits, whitespace and common punctuation is 70 %
\* or more
ReadableShare(s) ==
  LET class == LowerChars \cup UpperChars \cup DigitChars \cup White
               \cup {".", ",", "!", "?", ";", ":", "'", "\"", "(", ")", "-"}
  IN  10 * Cardinality({ i \in DOMAIN s : s[i] \in class }) >= 7 * Len(s)

\* a word of 3 to 20 characters with a vowel, that is neither 8 or more
\* hexadecimal digits, nor 8 or more lower-case letters, digits and
\* underscores, nor digits only
MeaningfulWord(w) ==
  /\ Len(w) \in 3..20
  /\ \E i \in DOMAIN w : w[i] \in {"a", "e", "i", "o", "u"}
  /\ Len(w) >= 8 => \E i \in DOMAIN w : w[i] \notin (DigitChars \cup {"a","b","c","d","e","f"})
  /\ Len(w) >= 8 => \E i \in DOMAIN w : w[i] \notin (LowerChars \cup DigitChars \cup {"_"})
  /\ \E i \in DOMAIN w : w[i] \notin DigitChars

\* the meaningful words are 30 % or more of the pieces that splitting the
\* lower-cased text at its runs of whitespace gives (one more than the runs)
MeaningfulShare(s) ==
  LET low == toLowerCase(s)
      starts == { i \in DOMAIN low : low[i] \notin White /\ (i = 1 \/ low[i - 1] \in White) }
      stop(i) == CHOOSE j \in i..Len(low) :
                   /\ \A k \in i..j : low[k] \notin White
                   /\ j = Len(low) \/ low[j + 1] \in White
      runs == { i \in DOMAIN low : low[i] \in White /\ (i = 1 \/ low[i - 1] \notin White) }
      meaningful == { i \in starts : MeaningfulWord(SubSeq(low, i, stop(i))) }
  IN  10 * Cardinality(meaningful) >= 3 * (Cardinality(runs) + 1)

\* w occurs in s
Occurs(w, s) ==
  \E i \in 0..(Len(s) - Len(w)) : \A k \in DOMAIN w : s[i + k] = w[k]

\* one of the common words occurs in the lower-cased text
CommonShare(s) ==
  \E k \in DOMAIN commonWords : Occurs(commonWords[k], toLowerCase(s))

\* C18: the validator returns true exactly when the trimmed length is at
\* least 100, the readable share at least 70 %, the meaningful-word share at
\* least 30 % and a common word occurs in the text as a substring, whatever
\* its case; so a text with the letter "a" in it passes the fourth check,
\* and the verdict is a function of the text.
C18_ValidIffFourChecks ==
  ValidatorDone =>
    /\ valid \in {"true", "false"}
    /\ valid = "true" <=>
         /\ TrimmedLength(candidate) >= 100
         /\ ReadableShare(candidate)
         /\ MeaningfulShare(candidate)
         /\ CommonShare(candidate)
    /\ (\E i \in DOMAIN candidate : candidate[i] \in {"a", "A"}) => CommonShare(candidate)

\* a text none of whose words is a common word: "a" and "do" occur inside
\* "cat" and "dog"
C18_Witness ==
  /\ ValidatorDone /\ valid = "true"
  /\ candidate = Repeat(<<"c","a","t"," ","d","o","g"," ">>, 20)

RepoCallOrder ==
  << "github-repo", "github-contributors", "github-languages", "github-readme",
     "gemini-analysis" >>
FileCallOrder == << "jina-reader", "gemini-vision", "gemini-analysis" >>

\* C19: within one request at most one call to a hosted API is in flight, and
\* it is the last one issued; the calls are issued in the order of the
\* handler, each at most once; and the analysis call is issued only after
\* the extraction has left the loop or the metadata has been assembled.
C19_OneCallInFlight ==
  /\ Cardinality(inflight) <= 1
  /\ inflight # {} => inflight = { calls[Len(calls)] }
  /\ endpoint = "repo" =>
       /\ Len(calls) <= Len(RepoCallOrder)
       /\ \A i \in DOMAIN calls : calls[i] = RepoCallOrder[i]
       /\ (\E i \in DOMAIN calls : calls[i] = "gemini-analysis") =>
            repoData # NoRepoData /\ readmeReply.kind # "none"
  /\ endpoint = "file" =>
       /\ \A i, j \in DOMAIN calls : i < j =>
            \E a, b \in DOMAIN FileCallOrder :
              a < b /\ calls[i] = FileCallOrder[a] /\ calls[j] = FileCallOrder[b]
       /\ \A i \in DOMAIN calls : \E a \in DOMAIN FileCallOrder : calls[i] = FileCallOrder[a]
       /\ (\E i \in DOMAIN calls : calls[i] = "gemini-analysis") =>
            /\ analysisArgs.called
            /\ pc \in {"await_model", "done"}
            /\ log # <<>> => log[Len(log)].event # "trying"

\* the fifth call of a repository request is in flight, alone
C19_Witness ==
  /\ endpoint = "repo" /\ pc = "await_model"
  /\ Len(calls) = 5 /\ inflight = {"gemini-analysis"}

\* a PDF upload for which every strategy was tried and none was accepted
Unextractable ==
  /\ IsFile(request) /\ DeclaredPdf(request)
  /\ Len(Tried) = 3 /\ ~Succeeded

\* the statuses of a file request that has ended, by what the request was
FileStatusClasses ==
  FileDone =>
    /\ response.status \in {200, 400, 500}
    /\ response.status = 200 =>
         /\ response.error = <<>>
         /\ response.analysis.source \in {"model", "fallback"}
         /\ analysisArgs.called /\ content.t = "string"
    /\ response.status # 200 =>
         response.error # <<>> /\ response.analysis = NoAnalysis
    /\ response.status = 400 <=>
         \/ request.kind = "nofile"
         \/ IsFile(request) /\ ~DeclaredPdf(request) /\ ~DeclaredText(request)
         \/ Unextractable

\* C20: when every call resolves or fails, every file request ends, in one
\* response of status 200, 400 or 500 that does not change afterwards: 200
\* with an analysis only when content was obtained and the analysis was
\* produced, 400 exactly for a missing file, an unsupported type or a PDF no
\* strategy could extract, 500 for every other failure.
C20_FileRequestEndsInOneResponse ==
  /\ (endpoint = "file") ~> (pc = "done")
  /\ [](pc # "done" => response = NoResponse)
  /\ [][pc = "done" => response' = response]_vars
  /\ []FileStatusClasses

\* the strategies whose returned text the validator rejected, and the
\* position in the log of the last such rejection
RejectedAt == { k \in DOMAIN log : log[k].event = "invalid" }
AcceptedAfter(k) == \E j \in DOMAIN log : j > k /\ log[j].event = "succeeded"
PdfRequest == endpoint = "file" /\ IsFile(request) /\ isPdfUpload(request)
AnalysisReached ==
  analysisArgs.called \/ \E i \in DOMAIN calls : calls[i] = "gemini-analysis"
\* every value a strategy can return, and those the validator returns true on
StrategyResults ==
  { extractPDFTextWithJina(a) : a \in JinaAnswers }
    \cup { extractPDFWithGeminiVision(a) : a \in VisionAnswers }
    \cup { extractPDFTextWithPDFJS(a) : a \in PdfjsAnswers }
ValidatedValues ==
  { r.value : r \in { q \in StrategyResults :
                        ~q.threw /\ validatorVerdict(q.value) = "true" } }

\* C21: on the PDF path the analysis step, and with it the analysis model
\* call, is reached only with content the validator accepted: the argument is
\* the text of the strategy that succeeded and the validator returns true on
\* it; text the validator rejected is cleared and stays cleared through the
\* exceptions of later strategies until some strategy is accepted; and when no
\* strategy was accepted the analysis is never reached.
C21_AnalysisOnlyOnValidatedContent ==
  PdfRequest =>
    /\ AnalysisReached =>
         /\ Succeeded
         /\ analysisArgs.called
         /\ analysisArgs.content = content
         /\ analysisArgs.content \in ValidatedValues
    /\ \A k \in RejectedAt : ~AcceptedAfter(k) => content = EmptyString
    /\ ~Succeeded => ~AnalysisReached

\* a PDF request whose first strategy returned text the validator rejected,
\* whose second strategy threw, whose third was accepted, and whose analysis
\* was then called
C21_Witness ==
  /\ PdfRequest
  /\ analysisArgs.called
  /\ \E i, j, k \in DOMAIN log :
       /\ i < j /\ j < k
       /\ log[i].event = "invalid"
       /\ log[j].event = "failed"
       /\ log[k].event = "succeeded"

\* every successful response of the two routes is one the page can receive
PageReceivesRouteResponses ==
  /\ (RepoDone /\ response.status = HTTP_OK) => response \in RepoOkResponses
  /\ (FileDone /\ response.status = HTTP_OK) => response \in FileResponses

\* C22: on the page, loading is true exactly while a request is in flight and
\* at most one request is in flight; a request is sent only from a state where
\* loading is false and the input is there and passes the size and type
\* tests, and the step that sends it sets loading; a step that shows one of
\* the two rejection messages sends nothing and leaves loading false.
ClientRejections ==
  { <<"File size must be less than 10MB">>,
    <<"Please upload a PDF, Markdown (.md), or Text (.txt) file">> }
SentNow == fetching' \ fetching
C22_LoadingIffInFlight ==
  /\ [](endpoint = "page" =>
          /\ loading <=> fetching # {}
          /\ Cardinality(fetching) <= 1)
  /\ [][ /\ \A req \in SentNow :
              /\ ~loading /\ loading'
              /\ req.route = "repo" => repoUrl # <<>>
              /\ req.route = "file" =>
                   /\ pageFile.chosen
                   /\ pageFile.size <= MAX_FILE_SIZE
                   /\ isValidType(pageFile)
         /\ (pageError' # pageError /\ pageError' \in ClientRejections) =>
              /\ SentNow = {}
              /\ ~loading /\ ~loading'
              /\ ~(pageFile.size <= MAX_FILE_SIZE /\ isValidType(pageFile)) ]_vars

\* the second request of the page is in flight after its first one put a
\* repository on the page
C22_Witness ==
  /\ endpoint = "page"
  /\ loading
  /\ fetching = { [route |-> "file", id |-> 2, url |-> <<>>] }
  /\ pageRepoData.of = 1

\* C23: on the page, whenever repoData is not null the analysis was read from
\* the same repository response; the settling of a failed request leaves
\* repoData and analysis as they were, and the settling of a successful file
\* request sets repoData to null.
SettledNow == fetching \ fetching'
C23_AnalysisOfShownRepo ==
  /\ [](pageRepoData.of # 0 =>
          pageAnalysis.of = pageRepoData.of /\ pageAnalysis.route = "repo")
  /\ [][ \A req \in SettledNow :
           /\ pageError' # <<>> => UNCHANGED <<pageRepoData, pageAnalysis>>
           /\ (pageError' = <<>> /\ req.route = "file") =>
                /\ pageRepoData' = NoPageData
                /\ pageAnalysis'.of = req.id
           /\ (pageError' = <<>> /\ req.route = "repo") =>
                /\ pageRepoData'.of = req.id
                /\ pageAnalysis'.of = req.id ]_vars

\* the second request put a repository on the page and the third one failed
C23_Witness ==
  /\ endpoint = "page"
  /\ submitted = 3 /\ ~loading
  /\ pageError = <<"Failed to fetch">>
  /\ pageRepoData.of = 2
  /\ pageAnalysis.of = 2

\* the first contributors of a list, at most TOP_CONTRIBUTORS of them
FirstContributors(list) ==
  SubSeq(list, 1, IF Len(list) < TOP_CONTRIBUTORS THEN Len(list) ELSE TOP_CONTRIBUTORS)

\* C24: whenever the page renders the contributors chart for the repoData of
\* a 200 response, the chart does not throw; it shows the placeholder when
\* contributors is empty and otherwise the first five contributors at most,
\* in the order received.
C24_ChartRenders ==
  (endpoint = "page" /\ pageRepoData.of # 0 /\ view.chart.shown) =>
    /\ ~view.chart.threw
    /\ pageRepoData.value.contributors.t = "array"
    /\ view.chart.placeholder <=> Len(pageRepoData.value.contributors.v) = 0
    /\ Len(view.chart.rows) =
         Len(FirstContributors(pageRepoData.value.contributors.v))
    /\ \A i \in DOMAIN view.chart.rows :
         /\ view.chart.rows[i].name = pageRepoData.value.contributors.v[i].login
         /\ view.chart.rows[i].value =
              pageRepoData.value.contributors.v[i].contributions

=============================================================================
